---- MODULE Spec2Model ----
(***************************************************************************)
(* Office Project Tracker (src/office_tracker.py): the relevance pipeline  *)
(* search_web -> evaluate_relevance -> save_to_database ->                 *)
(* send_email_notification, driven by main, over the SQLite store          *)
(* office_projects.db (tables projects, companies, locations, analytics,   *)
(* search_log).                                                            *)
(*                                                                         *)
(* Text.  A Python str is modelled as a sequence of atoms.  An atom is a   *)
(* TLA+ string standing for its characters: one whitespace or punctuation  *)
(* character, or one run of letters/digits.  The text is the concatenation *)
(* of its atoms, so <<"KPMG", " ", "office">> is "KPMG office".  What the  *)
(* code does to characters (str.lower, str.split, SQLite's LIKE folding,   *)
(* substring tests) is modelled atom by atom through the tables below.     *)
(***************************************************************************)
EXTENDS Integers, Sequences, FiniteSets, TLC

VARIABLES
    projects,            \* table projects: sequence of rows, in id order
    companies,           \* table companies: set of rows, name is the unique key
    locations,           \* table locations: set of rows, name is the unique key
    analytics,           \* table analytics: sequence of rows
    search_log,          \* table search_log: sequence of rows
    today,               \* datetime.now(), as a day number
    pc,                  \* position of main() in the current run
    env,                 \* the environment of the current run
    results,             \* main's local `results`
    relevant_results,    \* main's local `relevant_results`
    new_projects_count,  \* main's local `new_projects_count`
    last_save,           \* the last save_to_database call: arguments and outcome
    last_send,           \* the last send_email_notification call: outcome
    last_eval,           \* the last evaluate_relevance call: arguments and outcome
    last_search,         \* the last search_web call: the requests it made
    text_call,           \* a text, a language, and what the text functions return
    outbox,              \* for each project id, the digests delivered that held it
    gui,                 \* the GUI host: its flags, its threads, the UI thread's queue
    script,              \* where the command-line script is, and what its calls of main did
    report,              \* what the summary at the end of the current run says
    at_start,            \* the projects table as the current run found it
    runs                 \* number of operations started so far (bounded)

vars == <<projects, companies, locations, analytics, search_log, today, pc, env,
          results, relevant_results, new_projects_count, last_save, last_send, last_eval,
          last_search, text_call, outbox, gui, script, report, at_start, runs>>

(***************************************************************************)
(* Bounds of the model.                                                    *)
(***************************************************************************)
MaxRuns == 2
MaxCalls == 2

(***************************************************************************)
(* Generic sequence helpers.                                               *)
(***************************************************************************)
Range(s) == {s[i] : i \in 1..Len(s)}

Take(s, n) == SubSeq(s, 1, IF n < Len(s) THEN n ELSE Len(s))

Min(a, b) == IF a < b THEN a ELSE b

(***************************************************************************)
(* Character tables of the atoms.                                          *)
(***************************************************************************)
\* str.isspace: the atoms str.split() splits on.
IsSpace(a) == a \in {" ", "\n"}

\* Upper-case ASCII letters of an atom folded to lower case; this is all
\* SQLite's built-in LIKE folds.
FoldAtom(a) ==
    CASE a = "KPMG" -> "kpmg"
      [] a = "PwC" -> "pwc"
      [] a = "Athens" -> "athens"
      [] a = "Greece" -> "greece"
      [] a = "New" -> "new"
      [] a = "Lamda" -> "lamda"
      [] a = "Development" -> "development"
      [] a = "Thessaloniki" -> "thessaloniki"
      [] a = "Patras" -> "patras"
      [] a = "Heraklion" -> "heraklion"
      [] a = "Piraeus" -> "piraeus"
      [] OTHER -> a

\* str.lower(): Unicode lower-casing, which also lowers Greek capitals.
LowerAtom(a) ==
    CASE a = "Η" -> "η"
      [] a = "Θεσσαλονίκη" -> "θεσσαλονίκη"
      [] a = "Αθήνα" -> "αθήνα"
      [] a = "Πάτρα" -> "πάτρα"
      [] a = "Ηράκλειο" -> "ηράκλειο"
      [] a = "Πειραιάς" -> "πειραιάς"
      [] a = "Μετεγκατάσταση" -> "μετεγκατάσταση"
      [] OTHER -> FoldAtom(a)

\* len(): the number of characters of an atom.
CharLen(a) ==
    CASE a \in {" ", "\n", ",", "|", "a", "Η", "η", "/", "-", ".", "0", "3", "5"} -> 1
      [] a \in {"in", "of", "τα", "sq", "m", "00", "02", "13", "15", "24", "31", "45"} -> 2
      [] a \in {"New", "PwC", "and", "for", "its", "new", "pwc", "the", "two",
                "για", "νέα", "στη", "της", "123"} -> 3
      [] a \in {"1200", "2023", "2024", "KPMG", "kpmg", "real", "soon", "sq.m", "team", "έδρα", "έργα"} -> 4
      [] a \in {"Lamda", "lamda", "staff", "today", "Αθήνα", "Πάτρα", "αγορά", "στέγη"} -> 5
      [] a \in {"Athens", "Greece", "athens", "estate", "greece", "leased", "office",
                "κέντρο"} -> 6
      [] a \in {"hundred", "γραφεία", "ακίνητα", "ακίνητο", "κτιρίου", "μίσθωση",
                "εξαγορά"} -> 7
      [] a \in {"acquired", "covering", "Ηράκλειο", "Πειραιάς", "ακινήτων", "ανάπτυξη", "γραφείων",
                "εμπορικό", "επέκταση", "επένδυση"} -> 8
      [] a \in {"announced", "expanding", "εταιρείας"} -> 9
      [] a \in {"relocating", "renovation", "ανακοίνωσε", "ανακαίνιση"} -> 10
      [] a \in {"Development", "development", "Θεσσαλονίκη", "θεσσαλονίκη",
                "καινοτομίας"} -> 11
      [] a \in {"επαγγελματικά", "επαγγελματική"} -> 13
      [] a \in {"Μετεγκατάσταση", "μετεγκατάσταση"} -> 14

RECURSIVE TextLen(_)
TextLen(text) == IF text = <<>> THEN 0 ELSE CharLen(Head(text)) + TextLen(Tail(text))

\* Atoms made of letters of detect_language's greek_chars only.  The final
\* sigma is not in greek_chars, so "της" holds two such letters, not three.
GreekAtoms == {"Η", "η", "Θεσσαλονίκη", "θεσσαλονίκη", "ανακοίνωσε", "για",
               "γραφεία", "μετεγκατάσταση", "νέα", "στη", "τα",
               "έδρα", "έργα", "Αθήνα", "Πάτρα", "αγορά", "στέγη", "κέντρο",
               "ακίνητα", "ακίνητο", "κτιρίου", "Ηράκλειο", "ακινήτων", "ανάπτυξη",
               "γραφείων", "εμπορικό", "επέκταση", "επένδυση", "ανακαίνιση",
               "επαγγελματικά", "επαγγελματική", "Μετεγκατάσταση", "μίσθωση",
               "εξαγορά"}

\* Atoms of such letters followed by one final sigma.
FinalSigmaAtoms == {"της", "Πειραιάς", "εταιρείας", "καινοτομίας"}

\* The letters of greek_chars among the first n characters of an atom.
GreekChars(a, n) ==
    IF a \in GreekAtoms THEN Min(n, CharLen(a))
    ELSE IF a \in FinalSigmaAtoms THEN Min(n, CharLen(a) - 1)
    ELSE 0

Lower(text) == [i \in 1..Len(text) |-> LowerAtom(text[i])]

\* str.split(): the maximal runs of non-whitespace atoms, in order.
RECURSIVE SplitFrom(_, _, _, _)
SplitFrom(text, i, cur, acc) ==
    IF i > Len(text)
    THEN IF cur = <<>> THEN acc ELSE Append(acc, cur)
    ELSE IF IsSpace(text[i])
         THEN SplitFrom(text, i + 1, <<>>, IF cur = <<>> THEN acc ELSE Append(acc, cur))
         ELSE SplitFrom(text, i + 1, Append(cur, text[i]), acc)

Split(text) == SplitFrom(text, 1, <<>>, <<>>)

\* ' '.join(words)
RECURSIVE Join(_)
Join(words) ==
    IF words = <<>> THEN <<>>
    ELSE IF Len(words) = 1 THEN Head(words)
    ELSE Head(words) \o <<" ">> \o Join(Tail(words))

\* A sentence written as its words, one atom each, single-spaced.
Sentence(atoms) == Join([i \in 1..Len(atoms) |-> <<atoms[i]>>])

\* Python's `needle in haystack`, over atoms.
IsSubstring(needle, hay) ==
    \E i \in 1..(Len(hay) - Len(needle) + 1) :
        \A j \in 1..Len(needle) : hay[i + j - 1] = needle[j]

(***************************************************************************)
(* SQLite: `description LIKE '%<inner>%'`.  The comparison folds ASCII      *)
(* letters only.  No atom of the model holds the wildcards "%" and "_", so *)
(* the inner pattern matches as a folded substring.                        *)
(***************************************************************************)
LikeContains(inner, s) ==
    \E i \in 1..(Len(s) - Len(inner) + 1) :
        \A j \in 1..Len(inner) : FoldAtom(s[i + j - 1]) = FoldAtom(inner[j])

(***************************************************************************)
(* search_web: the content hash of a result.  The MD5 digest is modelled   *)
(* by its input, the string f"{title}|{snippet}": equal inputs give equal  *)
(* digests, distinct inputs distinct digests.                              *)
(***************************************************************************)
ContentHash(title, snippet) == title \o <<"|">> \o snippet

(***************************************************************************)
(* save_to_database(projects): the deduplication gate and the insert.      *)
(***************************************************************************)
\* A text key a result dict does not hold (dict.get then gives its default).
NoText == <<>>

\* An SQL NULL in an integer column.
NULL == -1

\* A date is a sequence of numbers: <<day number>> for datetime.now(),
\* <<year, month, day>> for a date read from a text, <<>> for no date.
NoDate == <<>>

\* A snippet is "substantial" above this many words (line 795) ...
SubstantialWords == 10
\* ... and is compared by its first words (line 797).
SimpleWords == 20

\* A duplicate test that forgets the content hash.
ExistingUrlOnly(rows, project) ==
    \E i \in 1..Len(rows) : rows[i].source_url = project.link

\* Lines 781-789: `existing_url or existing_hash`.
ExistingUrlOrHash(rows, project) ==
    \/ \E i \in 1..Len(rows) : rows[i].source_url = project.link
    \/ \E i \in 1..Len(rows) : rows[i].content_hash = project.content_hash

\* Lines 793-802: the near-duplicate test on the lower-cased snippet.
SimilarContent(rows, project) ==
    LET snippet_words == Split(Lower(project.snippet))
        simple_snippet == Join(Take(snippet_words, SimpleWords))
    IN  /\ Len(snippet_words) > SubstantialWords
        /\ \E i \in 1..Len(rows) : LikeContains(simple_snippet, rows[i].description)

\* Lines 808-835: the inserted row; id is AUTOINCREMENT, is_sent DEFAULT 0.
NewProjectRow(rows, project, now) ==
    [id |-> Len(rows) + 1,
     company_name |-> project.extracted_company,
     location |-> project.extracted_location,
     description |-> project.snippet,
     source_url |-> project.link,
     source_title |-> project.title,
     relevance_score |-> project.relevance_score,
     project_type |-> project.project_type,
     estimated_size |-> IF project.estimated_size = NoText THEN <<"Unknown">>
                        ELSE project.estimated_size,
     date_reported |-> IF project.date_reported = NoDate THEN <<now>> ELSE project.date_reported,
     date_added |-> now,
     content_hash |-> project.content_hash,
     is_sent |-> 0]

\* A loop without its `continue` statements: every project is inserted.
RECURSIVE SaveLoop_noContinue(_, _, _, _)
SaveLoop_noContinue(rows, plist, count, now) ==
    IF plist = <<>> THEN [projects |-> rows, count |-> count]
    ELSE SaveLoop_noContinue(Append(rows, NewProjectRow(rows, Head(plist), now)),
                             Tail(plist), count + 1, now)

\* Lines 780-838: the loop over the projects, in list order, each decided
\* against the rows as they stand, the rows inserted before it included.
RECURSIVE SaveLoop(_, _, _, _)
SaveLoop(rows, plist, count, now) ==
    IF plist = <<>> THEN [projects |-> rows, count |-> count]
    ELSE LET project == Head(plist) IN
         IF ExistingUrlOrHash(rows, project)
         THEN SaveLoop(rows, Tail(plist), count, now)
         ELSE IF SimilarContent(rows, project)
         THEN SaveLoop(rows, Tail(plist), count, now)
         ELSE SaveLoop(Append(rows, NewProjectRow(rows, project, now)),
                       Tail(plist), count + 1, now)

\* Lines 840-851: UPDATE analytics ... WHERE date = today, and an INSERT when
\* the UPDATE touched no row.
UpdateAnalytics(tbl, count, now) ==
    IF \E i \in 1..Len(tbl) : tbl[i].date = now
    THEN [i \in 1..Len(tbl) |->
             IF tbl[i].date = now THEN [tbl[i] EXCEPT !.relevant_results = count]
             ELSE tbl[i]]
    ELSE Append(tbl, [date |-> now, searches_performed |-> NULL,
                      results_found |-> NULL, relevant_results |-> count])

\* Lines 770-857: the tables after the call and the returned count.
save_to_database(rows, tbl, plist, now) ==
    LET done == SaveLoop(rows, plist, 0, now)
    IN  [projects |-> done.projects,
         analytics |-> UpdateAnalytics(tbl, done.count, now),
         count |-> done.count]

(***************************************************************************)
(* detect_language(text), lines 67-80.                                     *)
(***************************************************************************)
\* text[:100]: the sample is a prefix of this many characters.
SampleChars == 100

\* The greek_chars letters within the first n characters of the text.
RECURSIVE GreekInPrefix(_, _)
GreekInPrefix(text, n) ==
    IF text = <<>> \/ n <= 0 THEN 0
    ELSE GreekChars(Head(text), n) + GreekInPrefix(Tail(text), n - CharLen(Head(text)))

\* The same over the whole text instead of its first 100 characters.
detect_language_wholeText(text) ==
    IF text = <<>> THEN "unknown"
    ELSE IF 10 * GreekInPrefix(text, TextLen(text)) > 3 * TextLen(text) THEN "el"
    ELSE "en"

\* greek_count > len(sample) * 0.3, in tenths.
detect_language(text) ==
    IF text = <<>> THEN "unknown"
    ELSE LET sample_len == Min(TextLen(text), SampleChars)
             greek_count == GreekInPrefix(text, SampleChars)
         IN  IF 10 * greek_count > 3 * sample_len THEN "el" ELSE "en"

\* Line 70: an argument that is not a str is "unknown" as well.
DetectLanguageOf(is_str, text) ==
    IF ~is_str THEN "unknown" ELSE detect_language(text)

(***************************************************************************)
(* Character classes of the regular expressions, atom by atom.             *)
(***************************************************************************)
\* [A-Z] at the start of the atom.
StartsUpperAscii(a) == a \in {"KPMG", "PwC", "Athens", "Greece", "New", "Lamda", "Development"}

\* [A-Z][a-z]+ : the whole atom is one capitalised word.
IsCapWord(a) == a \in {"Athens", "Greece", "New", "Lamda", "Development"}

\* [Α-ΩΆΈΉΊΌΎΏΪΫ] at the start of the atom.
StartsUpperGreek(a) == a \in {"Η", "Θεσσαλονίκη"}

\* Atoms of ASCII letters only ([a-zA-Z]).
AsciiLetterAtoms ==
    {"KPMG", "PwC", "Athens", "Greece", "New", "Lamda", "Development",
     "kpmg", "pwc", "athens", "greece", "lamda", "development",
     "leased", "a", "new", "office", "in", "for", "its", "staff", "of", "two",
     "hundred", "and", "the", "real", "estate", "team", "today", "announced",
     "covering", "soon", "sq", "m"}

\* Atoms of Greek letters only (Ͱ-Ͽ), the final sigma included.
GreekLetterAtoms == GreekAtoms \cup {"της"}

\* Every character is in [\w\s&\-'] (\w is Unicode: letters of both
\* alphabets and digits).
IsNameClass(a) == a \in AsciiLetterAtoms \cup GreekLetterAtoms \cup {"1200", " ", "\n"}

\* str.strip()
RECURSIVE Strip(_)
Strip(text) ==
    IF text = <<>> THEN <<>>
    ELSE IF IsSpace(Head(text)) THEN Strip(Tail(text))
    ELSE IF IsSpace(text[Len(text)]) THEN Strip(SubSeq(text, 1, Len(text) - 1))
    ELSE text

\* The first index >= i of an atom that is not whitespace (Len + 1: none).
RECURSIVE SkipSpaces(_, _)
SkipSpaces(text, i) ==
    IF i > Len(text) THEN Len(text) + 1
    ELSE IF IsSpace(text[i]) THEN SkipSpaces(text, i + 1) ELSE i

(***************************************************************************)
(* The anchored name patterns of extract_company_names:                    *)
(*   <start character> [\w\s&\-']{2,50}? \s <anchor> \b                    *)
(* A match starts at an atom p whose first character is in the start       *)
(* class and ends at the nearest anchor atom j such that text[j-1] is the  *)
(* \s, the atoms p..j-2 are in the class and hold 3 to 51 characters.      *)
(* re.finditer yields the leftmost match, then scans on behind it.         *)
(***************************************************************************)
NameMinChars == 3
NameMaxChars == 51

StartOK(mode, a) ==
    CASE mode = "letter" -> a \in AsciiLetterAtoms \cup GreekLetterAtoms
      [] mode = "upper_ascii" -> StartsUpperAscii(a)
      [] mode = "upper_greek" -> StartsUpperGreek(a)

AnchoredEnd(text, p, anchor) ==
    LET ends == {j \in (p + 2)..Len(text) :
                    /\ text[j] = anchor
                    /\ IsSpace(text[j - 1])
                    /\ \A k \in p..(j - 1) : IsNameClass(text[k])
                    /\ TextLen(SubSeq(text, p, j - 2)) >= NameMinChars
                    /\ TextLen(SubSeq(text, p, j - 2)) <= NameMaxChars}
    IN  IF ends = {} THEN 0 ELSE CHOOSE j \in ends : \A k \in ends : j <= k

RECURSIVE AnchoredMatches(_, _, _, _)
AnchoredMatches(text, from, mode, anchor) ==
    LET starts == {p \in from..Len(text) :
                      StartOK(mode, text[p]) /\ AnchoredEnd(text, p, anchor) # 0}
    IN  IF starts = {} THEN <<>>
        ELSE LET p == CHOOSE q \in starts : \A r \in starts : q <= r
                 j == AnchoredEnd(text, p, anchor)
             IN  <<[from |-> p, to |-> j]>> \o AnchoredMatches(text, j + 1, mode, anchor)

(***************************************************************************)
(* extract_company_names(text, language), lines 413-486.                   *)
(***************************************************************************)
\* Lines 34-37.
EXAMPLE_COMPANIES ==
    <<<<"PwC">>, <<"KPMG">>, <<"Deloitte">>, <<"EY">>, <<"Lamda", " ", "Development">>,
      <<"Dimand">>, <<"Prodea">>, <<"Noval", " ", "Property">>>>

\* Lines 40-52, the identifiers of one word without punctuation ("Real
\* Estate" and the dotted Greek forms need atoms no text of the model holds).
COMPANY_IDENTIFIERS(language) ==
    IF language = "el"
    THEN <<"ΑΕ", "ΕΠΕ", "ΟΕ", "ΙΚΕ", "ΑΕΒΕ", "ΑΒΕΕ", "ΑΞΤΕ", "Όμιλος", "Εταιρεία",
           "Εταιρεια", "Ανάπτυξη", "Αναπτυξη", "Ακίνητα", "Ακινητα", "Επενδύσεις",
           "Επενδυσεις", "Κατασκευαστική", "Κατασκευαστικη">>
    ELSE <<"Inc", "LLC", "Ltd", "Limited", "Corp", "Corporation", "Co", "Company",
           "Group", "Holdings", "Enterprises", "Ventures", "Capital", "Partners",
           "Properties", "Development", "Investments">>

\* Lines 439-440 and 453.
CompanyVerbs(language) ==
    IF language = "en"
    THEN <<"announced", "reported", "unveiled", "launched", "introduced", "acquired",
           "purchased", "bought", "leased", "moved", "relocated">>
    ELSE IF language = "el"
    THEN <<"ανακοίνωσε", "παρουσίασε", "απέκτησε", "αγόρασε", "μίσθωσε",
           "μετεγκαταστάθηκε">>
    ELSE <<>>

\* Bounds of `3 < len(company_name) < 60`.
CompanyMinLen == 3
CompanyMaxLen == 60

\* Lines 426-435: first pass, name = group(1).strip() + identifier.
SuffixNames(text, language) ==
    LET ids == COMPANY_IDENTIFIERS(language) IN
    {n \in UNION {{Strip(SubSeq(text, m.from, m.to - 1)) \o <<ids[k]>> :
                      m \in Range(AnchoredMatches(text, 1, "letter", ids[k]))} :
                  k \in 1..Len(ids)} :
        CompanyMinLen < TextLen(n) /\ TextLen(n) < CompanyMaxLen}

\* Lines 437-462: second pass, the capitalised phrase before a verb.
VerbNames(text, language) ==
    LET verbs == CompanyVerbs(language)
        mode == IF language = "el" THEN "upper_greek" ELSE "upper_ascii" IN
    {n \in UNION {{Strip(SubSeq(text, m.from, m.to - 2)) :
                      m \in Range(AnchoredMatches(text, 1, mode, verbs[k]))} :
                  k \in 1..Len(verbs)} :
        CompanyMinLen < TextLen(n) /\ TextLen(n) < CompanyMaxLen}

\* Lines 479-482: the watch-list companies found verbatim.
WatchListNames(text) ==
    {EXAMPLE_COMPANIES[k] : k \in {i \in 1..Len(EXAMPLE_COMPANIES) :
                                      IsSubstring(EXAMPLE_COMPANIES[i], text)}}

\* The set the function returns as list(set(companies)); the third pass
\* needs a double quote, which no text of the model holds.
extract_company_names(text, language) ==
    IF text = <<>> THEN {}
    ELSE {c \in SuffixNames(text, language) \cup VerbNames(text, language)
                \cup WatchListNames(text) :
             TextLen(c) > CompanyMinLen}

(***************************************************************************)
(* extract_locations(text, language), lines 489-536.                       *)
(***************************************************************************)
\* list.append guarded by `not in`.
AppendNew(list, x) == IF x \in Range(list) THEN list ELSE Append(list, x)

RECURSIVE AppendAllNew(_, _)
AppendAllNew(list, xs) ==
    IF xs = <<>> THEN list ELSE AppendAllNew(AppendNew(list, Head(xs)), Tail(xs))

\* ,?\s+(?:Greece|Hellas) from index k.
CountrySuffixAt(text, k) ==
    LET k2 == IF k <= Len(text) /\ text[k] = "," THEN k + 1 ELSE k
        g == SkipSpaces(text, k2)
    IN  g > k2 /\ g <= Len(text) /\ text[g] \in {"Greece", "Hellas"}

\* ([A-Z][a-z]+(?:\s+[A-Z][a-z]+)?) at index a, greedy: two words when the
\* rest of the pattern still matches behind them, else one; <<>>: no match.
CapGroupAt(text, a, with_country) ==
    IF a > Len(text) \/ ~IsCapWord(text[a]) THEN <<>>
    ELSE LET b == SkipSpaces(text, a + 1)
             two == /\ b > a + 1 /\ b <= Len(text) /\ IsCapWord(text[b])
                    /\ (with_country => CountrySuffixAt(text, b + 1))
             one == with_country => CountrySuffixAt(text, a + 1)
         IN  IF two THEN SubSeq(text, a, b)
             ELSE IF one THEN <<text[a]>> ELSE <<>>

\* Line 496: (?:in|at|near|to|from)\s+(...),?\s+(?:Greece|Hellas), at index q.
PrepositionCountryAt(text, q) ==
    LET a == SkipSpaces(text, q + 1) IN
    IF text[q] \in {"in", "at", "near", "to", "from"} /\ a > q + 1
    THEN CapGroupAt(text, a, TRUE) ELSE <<>>

\* Line 499: new\s+(?:office|headquarters|building)\s+(?:in|at)\s+(...).
NewOfficeInAt(text, q) ==
    LET s1 == SkipSpaces(text, q + 1)
        s2 == SkipSpaces(text, s1 + 1)
        a == SkipSpaces(text, s2 + 1) IN
    IF /\ text[q] = "new"
       /\ s1 > q + 1 /\ s1 <= Len(text) /\ text[s1] \in {"office", "headquarters", "building"}
       /\ s2 > s1 + 1 /\ s2 <= Len(text) /\ text[s2] \in {"in", "at"}
       /\ a > s2 + 1
    THEN CapGroupAt(text, a, FALSE) ELSE <<>>

\* The groups of one pattern, in text order.
RECURSIVE PatternGroups(_, _, _)
PatternGroups(text, q, pattern) ==
    IF q > Len(text) THEN <<>>
    ELSE LET g == IF pattern = 1 THEN PrepositionCountryAt(text, q)
                  ELSE NewOfficeInAt(text, q)
         IN  (IF g = <<>> THEN <<>> ELSE <<g>>) \o PatternGroups(text, q + 1, pattern)

\* Lines 525-530.
common_locations ==
    <<<<"Athens">>, <<"Thessaloniki">>, <<"Patras">>, <<"Heraklion">>, <<"Piraeus">>,
      <<"Larissa">>, <<"Glyfada">>, <<"Marousi">>, <<"Chalandri">>, <<"Kifissia">>,
      <<"Kallithea">>, <<"Palaio", " ", "Faliro">>, <<"Voula">>,
      <<"Αθήνα">>, <<"Θεσσαλονίκη">>, <<"Πάτρα">>, <<"Ηράκλειο">>, <<"Πειραιάς">>,
      <<"Λάρισα">>, <<"Γλυφάδα">>, <<"Μαρούσι">>, <<"Χαλάνδρι">>, <<"Κηφισιά">>,
      <<"Καλλιθέα">>, <<"Παλαιό", " ", "Φάληρο">>, <<"Βούλα">>>>

RECURSIVE CommonFound(_, _)
CommonFound(text, k) ==
    IF k > Len(common_locations) THEN <<>>
    ELSE (IF IsSubstring(common_locations[k], text) THEN <<common_locations[k]>> ELSE <<>>)
         \o CommonFound(text, k + 1)

\* A location pattern match is kept when `len(location) > 2`.
LocationMinLen == 2

RECURSIVE KeepLong(_)
KeepLong(groups) ==
    IF groups = <<>> THEN <<>>
    ELSE (IF TextLen(Head(groups)) > LocationMinLen THEN <<Head(groups)>> ELSE <<>>)
         \o KeepLong(Tail(groups))

\* The list the function returns, in order of discovery.  The second and
\* third English patterns and the Greek patterns are anchored on words
\* (relocating, district, στην, περιοχή, ...) that no text of the model holds.
extract_locations(text, language) ==
    LET by_pattern ==
            IF language = "en"
            THEN AppendAllNew(AppendAllNew(<<>>, KeepLong(PatternGroups(text, 1, 1))),
                              KeepLong(PatternGroups(text, 1, 4)))
            ELSE <<>>
    IN  AppendAllNew(by_pattern, CommonFound(text, 1))

(***************************************************************************)
(* extract_project_type(content, language), lines 539-583.                 *)
(***************************************************************************)
\* `term in atom` for a term of one word: the atoms of the model that hold
\* a term as a proper substring are listed.
AtomContains(a, t) ==
    a = t \/ <<a, t>> \in {<<"leased", "lease">>, <<"εξαγορά", "αγορά">>}

\* `term in content_lower`
TermIn(term, text) ==
    IF Len(term) = 1 THEN \E i \in 1..Len(text) : AtomContains(text[i], term[1])
    ELSE IsSubstring(term, text)

AnyTermIn(terms, text) == \E k \in 1..Len(terms) : TermIn(terms[k], text)

\* The decision list of a language: <<category, terms>> in evaluation order.
ProjectTypeRules(language) ==
    IF language = "en" THEN
      << <<"New Office", <<<<"new", " ", "office">>, <<"new", " ", "building">>,
                           <<"new", " ", "headquarters">>, <<"new", " ", "hq">>>>>>,
         <<"Relocation", <<<<"relocation">>, <<"relocating">>, <<"moving", " ", "to">>,
                           <<"moved", " ", "to">>>>>>,
         <<"Expansion", <<<<"expansion">>, <<"expanding">>, <<"additional", " ", "space">>,
                          <<"growing">>>>>>,
         <<"Renovation", <<<<"renovation">>, <<"refurbishment">>, <<"remodeling">>,
                           <<"upgrading">>>>>>,
         <<"Leasing", <<<<"lease">>, <<"leasing">>, <<"leased">>, <<"rental">>,
                        <<"renting">>>>>>,
         <<"Acquisition", <<<<"purchase">>, <<"acquisition">>, <<"acquired">>,
                            <<"bought">>, <<"buying">>>>>> >>
    ELSE IF language = "el" THEN
      << <<"New Office", <<<<"νέο", " ", "γραφείο">>, <<"νέα", " ", "γραφεία">>,
                           <<"νέο", " ", "κτίριο">>, <<"νέα", " ", "έδρα">>>>>>,
         <<"Relocation", <<<<"μετεγκατάσταση">>, <<"μετακόμιση">>,
                           <<"μεταφορά", " ", "γραφείων">>>>>>,
         <<"Expansion", <<<<"επέκταση">>, <<"επέκταση", " ", "γραφείων">>,
                          <<"επιπλέον", " ", "χώρος">>>>>>,
         <<"Renovation", <<<<"ανακαίνιση">>, <<"ανακαίνιση", " ", "γραφείων">>,
                           <<"αναβάθμιση">>>>>>,
         <<"Leasing", <<<<"μίσθωση">>, <<"ενοικίαση">>, <<"μισθώνει">>,
                        <<"ενοικιάζει">>>>>>,
         <<"Acquisition", <<<<"αγορά">>, <<"εξαγορά">>, <<"απόκτηση">>,
                            <<"αγοράζει">>>>>> >>
    ELSE <<>>

\* A decision list that lets the last matching category win.
RECURSIVE FirstRule_lastMatch(_, _)
FirstRule_lastMatch(rules, content_lower) ==
    IF rules = <<>> THEN "Office Project"
    ELSE IF FirstRule_lastMatch(Tail(rules), content_lower) # "Office Project"
    THEN FirstRule_lastMatch(Tail(rules), content_lower)
    ELSE IF AnyTermIn(Head(rules)[2], content_lower) THEN Head(rules)[1]
    ELSE "Office Project"

\* Lines 545-583: the first category one of whose terms occurs.
RECURSIVE FirstRule(_, _)
FirstRule(rules, content_lower) ==
    IF rules = <<>> THEN "Office Project"
    ELSE IF AnyTermIn(Head(rules)[2], content_lower) THEN Head(rules)[1]
    ELSE FirstRule(Tail(rules), content_lower)

extract_project_type(content, language) ==
    FirstRule(ProjectTypeRules(language), Lower(content))

(***************************************************************************)
(* evaluate_relevance(results), lines 587-767: the score of one result.    *)
(***************************************************************************)
\* Lines 55-65.
OFFICE_KEYWORDS ==
    <<<<"office">>, <<"headquarters">>, <<"hq">>, <<"building">>,
      <<"real", " ", "estate">>, <<"property">>, <<"workspace">>, <<"commercial">>,
      <<"lease">>, <<"square", " ", "meters">>, <<"sqm">>, <<"m²">>,
      <<"development">>, <<"project">>, <<"acquisition">>, <<"purchase">>,
      <<"move">>, <<"relocation">>,
      <<"γραφεία">>, <<"γραφείο">>, <<"έδρα">>, <<"κτίριο">>, <<"ακίνητο">>,
      <<"ακίνητα">>, <<"επαγγελματικό">>, <<"επαγγελματική", " ", "στέγη">>,
      <<"εμπορικό">>, <<"μίσθωση">>, <<"τετραγωνικά", " ", "μέτρα">>, <<"τ.μ.">>,
      <<"τ.μ">>, <<"τμ">>, <<"μ²">>, <<"ανάπτυξη">>, <<"έργο">>, <<"εξαγορά">>,
      <<"αγορά">>, <<"μετακόμιση">>, <<"μετεγκατάσταση">>>>

\* Lines 614-625: the minimal English stop words and the Greek ones.  (The
\* NLTK list, when it is installed, holds more English words; none of either
\* list contains an office keyword.)
stop_words ==
    {"a", "an", "the", "and", "or", "but", "if", "then", "else", "when", "at", "by",
     "for", "with", "about", "against", "between", "into", "through", "during",
     "before", "after", "above", "below", "to", "from", "up", "down", "in", "out",
     "on", "off", "over", "under", "of", "is", "are",
     "ο", "η", "το", "οι", "τα", "του", "της", "των", "τον", "την", "και", "κι", "κ",
     "με", "σε", "από", "για", "προς", "παρά", "αντί", "μέχρι", "ως", "πως", "ότι",
     "είναι", "ήταν", "θα", "να", "δεν", "μη", "μην"}

\* Lines 601-607, simple_tokenize: punctuation becomes a space, then split.
RECURSIVE PunctuationToSpace(_)
PunctuationToSpace(text) ==
    IF text = <<>> THEN <<>>
    ELSE (CASE Head(text) = "," -> <<" ">>
            [] Head(text) = "sq.m" -> <<"sq", " ", "m">>
            [] OTHER -> <<Head(text)>>) \o PunctuationToSpace(Tail(text))

simple_tokenize(text) == Split(PunctuationToSpace(text))

\* any(keyword.lower() in token for keyword in OFFICE_KEYWORDS)
TokenHasKeyword(token) ==
    \E k \in 1..Len(OFFICE_KEYWORDS) :
        /\ Len(OFFICE_KEYWORDS[k]) = 1
        /\ \E i \in 1..Len(token) : AtomContains(token[i], OFFICE_KEYWORDS[k][1])

\* Lines 722-723 and 730: the matching tokens left by the stop-word filter.
office_term_count(content) ==
    LET tokens == simple_tokenize(Lower(content))
    IN  Cardinality({i \in 1..Len(tokens) :
                        /\ ~(Len(tokens[i]) = 1 /\ tokens[i][1] \in stop_words)
                        /\ TokenHasKeyword(tokens[i])})

\* Lines 734-735: (\d[\d,.]*)\s*(?:sq\.?m|...), the captured numbers in text
\* order.
RECURSIVE size_matches(_, _)
size_matches(text, i) ==
    IF i > Len(text) THEN <<>>
    ELSE LET u == SkipSpaces(text, i + 1) IN
         IF text[i] = "1200" /\ u <= Len(text) /\ text[u] \in {"sq.m", "sqm", "m²", "τμ"}
         THEN <<<<text[i]>>>> \o size_matches(text, u + 1)
         ELSE size_matches(text, i + 1)

\* Lines 656-668: with no company extracted, the capitalised runs of the
\* title, ([A-Z][a-zA-Z'\-&\s]{2,30}) or its Greek form, found by re.findall.
\* The titles of the model hold at most 31 characters, so the {2,30} bound
\* never cuts a run short.
TitleRunClass(a, language) ==
    IF language = "en" THEN a \in AsciiLetterAtoms \/ IsSpace(a)
    ELSE a \in GreekLetterAtoms \/ IsSpace(a)

TitleRunStart(a, language) ==
    IF language = "en" THEN StartsUpperAscii(a) ELSE StartsUpperGreek(a)

RECURSIVE TitleRunEnd(_, _, _)
TitleRunEnd(title, e, language) ==
    IF e < Len(title) /\ TitleRunClass(title[e + 1], language)
    THEN TitleRunEnd(title, e + 1, language) ELSE e

TitleRunMinChars == 3
TitleCompanyMaxLen == 40

RECURSIVE potential_companies(_, _, _)
potential_companies(title, from, language) ==
    LET starts == {p \in from..Len(title) :
                      /\ TitleRunStart(title[p], language)
                      /\ TextLen(SubSeq(title, p, TitleRunEnd(title, p, language)))
                             >= TitleRunMinChars}
    IN  IF starts = {} THEN <<>>
        ELSE LET p == CHOOSE q \in starts : \A r \in starts : q <= r
                 e == TitleRunEnd(title, p, language)
             IN  <<SubSeq(title, p, e)>> \o potential_companies(title, e + 1, language)

RECURSIVE KeepTitleCompanies(_)
KeepTitleCompanies(found) ==
    IF found = <<>> THEN <<>>
    ELSE LET rest == KeepTitleCompanies(Tail(found)) IN
         IF CompanyMinLen < TextLen(Head(found)) /\ TextLen(Head(found)) < TitleCompanyMaxLen
         THEN <<Head(found)>> \o rest ELSE rest

\* The points of the scoring rule and the acceptance threshold.
CompanyPoints == 25
LocationPoints == 15
KeywordPoints == 5
KeywordCap == 5
LanguagePoints == 5
TermCap == 20
SizePoints == 10
Threshold == 30

\* Line 639.
content_to_check(result) ==
    result.title \o <<" ">> \o result.snippet \o <<" ">>
        \o (IF result.has_content THEN result.full_content ELSE <<>>)

\* A keyword loop whose cap is off by one.
RECURSIVE KeywordLoop_capOffByOne(_, _, _, _)
KeywordLoop_capOffByOne(content_lower, k, keyword_count, score) ==
    IF k > Len(OFFICE_KEYWORDS) THEN [keyword_count |-> keyword_count, score |-> score]
    ELSE IF TermIn(OFFICE_KEYWORDS[k], content_lower)
         THEN KeywordLoop_capOffByOne(content_lower, k + 1, keyword_count + 1,
                          IF keyword_count + 1 < KeywordCap THEN score + KeywordPoints
                          ELSE score)
         ELSE KeywordLoop_capOffByOne(content_lower, k + 1, keyword_count, score)

\* Lines 714-719: the loop over OFFICE_KEYWORDS; the first KeywordCap
\* matches add points.
RECURSIVE KeywordLoop(_, _, _, _)
KeywordLoop(content_lower, k, keyword_count, score) ==
    IF k > Len(OFFICE_KEYWORDS) THEN [keyword_count |-> keyword_count, score |-> score]
    ELSE IF TermIn(OFFICE_KEYWORDS[k], content_lower)
         THEN KeywordLoop(content_lower, k + 1, keyword_count + 1,
                          IF keyword_count + 1 <= KeywordCap THEN score + KeywordPoints
                          ELSE score)
         ELSE KeywordLoop(content_lower, k + 1, keyword_count, score)

\* The digits of an atom that is a decimal number (<<>>: not a number).
Digits(a) ==
    CASE a = "0" -> <<"0">>
      [] a = "3" -> <<"3">>
      [] a = "5" -> <<"5">>
      [] a = "00" -> <<"0", "0">>
      [] a = "02" -> <<"0", "2">>
      [] a = "13" -> <<"1", "3">>
      [] a = "15" -> <<"1", "5">>
      [] a = "24" -> <<"2", "4">>
      [] a = "31" -> <<"3", "1">>
      [] a = "45" -> <<"4", "5">>
      [] a = "123" -> <<"1", "2", "3">>
      [] a = "1200" -> <<"1", "2", "0", "0">>
      [] a = "2023" -> <<"2", "0", "2", "3">>
      [] a = "2024" -> <<"2", "0", "2", "4">>
      [] OTHER -> <<>>

\* An atom with a word character at both ends (\w), for \b.
IsWordAtom(a) == ~IsSpace(a) /\ a \notin {",", "|", "/", "-", "."}

\* Lines 741-743: \b(\d{1,2})[\/\-\.](\d{1,2})[\/\-\.](\d{2,4})\b, the
\* (day, month, year) groups of the matches in text order.
RECURSIVE date_matches(_, _)
date_matches(text, i) ==
    IF i + 4 > Len(text) THEN <<>>
    ELSE IF /\ Len(Digits(text[i])) \in 1..2
            /\ (i > 1 => ~IsWordAtom(text[i - 1]))
            /\ text[i + 1] \in {"/", "-", "."}
            /\ Len(Digits(text[i + 2])) \in 1..2
            /\ text[i + 3] \in {"/", "-", "."}
            /\ Len(Digits(text[i + 4])) \in 2..4
            /\ (i + 5 <= Len(text) => ~IsWordAtom(text[i + 5]))
         THEN <<[day |-> Digits(text[i]), month |-> Digits(text[i + 2]),
                 year |-> Digits(text[i + 4])]>> \o date_matches(text, i + 5)
         ELSE date_matches(text, i + 1)

\* str.zfill(2)
ZFill2(digits) == IF Len(digits) < 2 THEN <<"0">> \o digits ELSE digits

\* Lines 745-752: the date set from the first match (NoDate: not set).
DateReported(matches) ==
    IF matches = <<>> THEN NoDate
    ELSE (IF Len(matches[1].year) = 2 THEN <<"2", "0">> \o matches[1].year
          ELSE matches[1].year)
         \o <<"-">> \o ZFill2(matches[1].month) \o <<"-">> \o ZFill2(matches[1].day)

\* An extraction in the language of the query.
Extraction_byQueryLanguage(result) ==
    LET content == content_to_check(result)
        content_lang == result.query_language
        named == extract_company_names(content, content_lang)
        from_title == IF named = {}
                      THEN KeepTitleCompanies(potential_companies(result.title, 1, content_lang))
                      ELSE <<>>
        found_locations == extract_locations(content, content_lang)
        sizes == size_matches(content, 1)
    IN  [content_lang |-> content_lang,
         named |-> named,
         from_title |-> from_title,
         extracted_companies |-> named \cup Range(from_title),
         found_locations |-> found_locations,
         project_type |-> extract_project_type(content, content_lang),
         keywords |-> KeywordLoop(Lower(content), 1, 0, 0),
         language_match |-> content_lang = "el" /\ result.query_language = "el",
         office_term_count |-> office_term_count(content),
         size_matches |-> sizes,
         date_matches |-> date_matches(content, 1)]

\* What lines 638-750 extract from one result: the signals of the score.
Extraction(result) ==
    LET content == content_to_check(result)
        content_lang == detect_language(content)
        named == extract_company_names(content, content_lang)
        from_title == IF named = {}
                      THEN KeepTitleCompanies(potential_companies(result.title, 1, content_lang))
                      ELSE <<>>
        found_locations == extract_locations(content, content_lang)
        sizes == size_matches(content, 1)
    IN  [content_lang |-> content_lang,
         named |-> named,
         from_title |-> from_title,
         extracted_companies |-> named \cup Range(from_title),
         found_locations |-> found_locations,
         project_type |-> extract_project_type(content, content_lang),
         keywords |-> KeywordLoop(Lower(content), 1, 0, 0),
         language_match |-> content_lang = "el" /\ result.query_language = "el",
         office_term_count |-> office_term_count(content),
         size_matches |-> sizes,
         date_matches |-> date_matches(content, 1)]

\* A score whose term bonus is subtracted instead of added.
Score_termsSubtracted(x) ==
    (IF x.extracted_companies # {} THEN CompanyPoints ELSE 0)
    + (IF x.found_locations # <<>> THEN LocationPoints ELSE 0)
    + x.keywords.score
    + (IF x.language_match THEN LanguagePoints ELSE 0)
    - Min(x.office_term_count, TermCap)
    + (IF x.size_matches # <<>> THEN SizePoints ELSE 0)

\* Lines 636, 671-672, 689-690, 714-719, 726-727, 730-731, 737-738: the
\* score, from the signals extracted.
Score(x) ==
    (IF x.extracted_companies # {} THEN CompanyPoints ELSE 0)
    + (IF x.found_locations # <<>> THEN LocationPoints ELSE 0)
    + x.keywords.score
    + (IF x.language_match THEN LanguagePoints ELSE 0)
    + Min(x.office_term_count, TermCap)
    + (IF x.size_matches # <<>> THEN SizePoints ELSE 0)

(***************************************************************************)
(* The texts of the model: titles, snippets and page texts.                *)
(***************************************************************************)
T_kpmg == <<"KPMG", " ", "office">>
T_new == <<"New", " ", "office">>
T_today == <<"KPMG", " ", "today">>
T_lamda == <<"Lamda", " ", "Development">>
T_low == <<"new", " ", "office">>

S_en == Sentence(<<"KPMG", "leased", "a", "new", "office", "in", "Athens",
                   "for", "its", "staff", "of", "two", "hundred">>)
S_enLow == Lower(S_en)
S_short == Sentence(<<"KPMG", "leased", "a", "new", "office">>)
S_el == Sentence(<<"Η", "Lamda", "Development", "ανακοίνωσε", "μετεγκατάσταση",
                   "στη", "Θεσσαλονίκη", "για", "τα", "νέα", "γραφεία", "της">>)
S_22a == S_en \o <<" ">> \o Sentence(<<"and", "the", "real", "estate", "team",
                                       "in", "Greece", "announced", "today">>)
S_22b == S_en \o <<" ">> \o Sentence(<<"and", "the", "real", "estate", "team",
                                       "in", "Greece", "announced", "soon">>)
S_staff == Sentence(<<"KPMG", "announced", "staff">>)
S_estate == Sentence(<<"KPMG", "announced", "real", "estate", "staff">>)
S_athens == <<"a", " ", "new", " ", "office", " ", "in", " ", "Athens", ",", " ", "Greece">>
S_size == Sentence(<<"KPMG", "leased", "a", "new", "office", "covering", "1200", "sq.m">>)
P_estate == S_short \o <<" ">> \o Sentence(<<"real", "estate">>)
P_office7 == Sentence([i \in 1..7 |-> "office"])
P_office21 == Sentence([i \in 1..21 |-> "office"])

(***************************************************************************)
(* The results a search returns, lines 251-379.                            *)
(***************************************************************************)
FirstQuery == <<"office", " ", "projects">>
GreekQuery == <<"νέα", " ", "γραφεία">>

\* Lines 256-262: "el" when the query holds a Greek letter.
QueryLanguage(query) ==
    IF \E i \in 1..Len(query) : GreekChars(query[i], SampleChars) > 0
    THEN "el" ELSE "en"

\* An item of the search response and what fetching its page gives:
\* "ok" (status 200, the text extracted), "non200", or "error" (the request
\* raises).
Item(title, link, snippet, page, text) ==
    [title |-> title, link |-> link, snippet |-> snippet, page |-> page, text |-> text]

I_lease == Item(T_kpmg, "u1", S_short, "error", <<>>)       \* a lease by a watched firm
I_again == Item(T_kpmg, "u2", S_short, "non200", <<>>)      \* the same report, other URL
I_firm == Item(T_today, "u3", S_staff, "non200", <<>>)      \* a firm and nothing else
I_greek == Item(T_lamda, "u4", S_el, "ok", S_el)            \* a Greek report
I_place == Item(T_low, "u5", S_athens, "non200", <<>>)      \* a place and no firm
I_estate == Item(T_today, "u6", S_estate, "non200", <<>>)   \* a firm and one keyword
I_office7 == Item(T_low, "u7", S_athens, "ok", P_office7)   \* a place and nine terms
I_size == Item(T_kpmg, "u8", S_size, "non200", <<>>)        \* a floor area
I_mixed == Item(T_kpmg, "u9", S_el, "ok", P_estate)         \* six keywords
I_office21 == Item(T_low, "u10", S_athens, "ok", P_office21)  \* twenty-three terms
I_dated == Item(T_kpmg, "u11", S_size \o <<" ", "15", "/", "3", "/", "2024">>,
                "non200", <<>>)                             \* a floor area and a date

\* Lines 280-377: one item of the response.
RawResult(item, query) ==
    [title |-> item.title, link |-> item.link, snippet |-> item.snippet,
     query |-> query, query_language |-> QueryLanguage(query),
     content_hash |-> ContentHash(item.title, item.snippet),
     has_content |-> item.page # "non200",
     full_content |-> IF item.page = "ok" THEN item.text
                      ELSE IF item.page = "error" THEN item.snippet ELSE <<>>]

\* The items the search responses of the pipeline are made of.
Items == {I_lease, I_again, I_firm, I_greek}

\* The results evaluate_relevance is applied to on its own.
ScoreInputs ==
    {RawResult(it, FirstQuery) :
        it \in {I_lease, I_firm, I_greek, I_place, I_estate, I_office7, I_size,
                I_mixed, I_office21}}
    \cup {RawResult(it, GreekQuery) : it \in {I_greek, I_lease}}

\* One item returned for an English query and for a Greek one.
LanguagePairs ==
    {<<RawResult(it, FirstQuery), RawResult(it, GreekQuery)>> :
        it \in {I_greek, I_lease, I_dated}}

\* Extraction is a function of the result alone; it is evaluated once for
\* each result of the model.
Signals ==
    [r \in ScoreInputs \cup {RawResult(it, FirstQuery) : it \in Items}
            \cup UNION {Range(pair) : pair \in LanguagePairs} |-> Extraction(r)]

SignalsOf(result) == Signals[result]

(***************************************************************************)
(* evaluate_relevance(results): the loop, the mention records, the filter. *)
(***************************************************************************)
\* Lines 678-684 and 696-702: INSERT ... ON CONFLICT(name) DO UPDATE, for
\* every name of a result (the names of one result are distinct).
UpsertMentions(tbl, names, now) ==
    {IF r.name \in names
     THEN [r EXCEPT !.mention_count = @ + 1, !.last_seen_date = now] ELSE r : r \in tbl}
    \cup {[name |-> n, mention_count |-> 1, last_seen_date |-> now] :
             n \in {m \in names : \A r \in tbl : r.name # m}}

\* extracted_companies[0]: list(set(...)) has no fixed order, so any
\* extracted name may come first; the title runs keep their order.
PrimaryChoices(x) ==
    IF x.named # {} THEN x.named
    ELSE IF x.from_title # <<>> THEN {x.from_title[1]}
    ELSE {<<"Unknown">>}

\* The result dict after lines 634-758, for a result that is kept.
ScoredResult(result, x, primary) ==
    [title |-> result.title, link |-> result.link, snippet |-> result.snippet,
     query |-> result.query, query_language |-> result.query_language,
     content_hash |-> result.content_hash,
     extracted_companies |-> x.extracted_companies,
     extracted_locations |-> IF x.found_locations = <<>> THEN <<<<"Greece">>>>
                             ELSE x.found_locations,
     project_type |-> x.project_type,
     estimated_size |-> IF x.size_matches = <<>> THEN NoText
                        ELSE x.size_matches[1] \o <<" ", "sq.m">>,
     date_reported |-> DateReported(x.date_matches),
     relevance_score |-> Score(x),
     extracted_company |-> primary,
     extracted_location |-> IF x.found_locations = <<>> THEN <<"Greece">>
                            ELSE x.found_locations[1]]

\* An acceptance test that is strict.
Accepts_strict(score) == score > Threshold

\* Line 755.
Accepts(score) == score >= Threshold

\* Line 765: list.sort(key = relevance_score, reverse = True), which is stable.
RECURSIVE InsertByScore(_, _)
InsertByScore(x, sorted) ==
    IF sorted = <<>> THEN <<x>>
    ELSE IF Head(sorted).relevance_score <= x.relevance_score THEN <<x>> \o sorted
    ELSE <<Head(sorted)>> \o InsertByScore(x, Tail(sorted))

RECURSIVE SortByScore(_)
SortByScore(list) ==
    IF list = <<>> THEN <<>> ELSE InsertByScore(Head(list), SortByScore(Tail(list)))

\* A step that records the mentions of the accepted results only.
EvaluateOne_acceptedOnly(st, result, pick, x, now) ==
    IF Accepts(Score(x))
    THEN [relevant |-> Append(st.relevant, ScoredResult(result, x, pick)),
          companies |-> UpsertMentions(st.companies, x.extracted_companies, now),
          locations |-> UpsertMentions(st.locations, Range(x.found_locations), now),
          scores |-> Append(st.scores, Score(x))]
    ELSE [st EXCEPT !.scores = Append(@, Score(x))]

\* Lines 635-758: one pass of the loop body, for a result whose signals are
\* x: the mention upserts, then the threshold test.
EvaluateOne(st, result, pick, x, now) ==
    [relevant |-> IF Accepts(Score(x))
                  THEN Append(st.relevant, ScoredResult(result, x, pick))
                  ELSE st.relevant,
     companies |-> UpsertMentions(st.companies, x.extracted_companies, now),
     locations |-> UpsertMentions(st.locations, Range(x.found_locations), now),
     scores |-> Append(st.scores, Score(x))]

\* Lines 634-759: the loop; picks[i] is the name that comes first in the
\* company list of result i.
RECURSIVE EvaluateLoop(_, _, _, _)
EvaluateLoop(rs, picks, st, now) ==
    IF rs = <<>> THEN st
    ELSE EvaluateLoop(Tail(rs), Tail(picks),
                      EvaluateOne(st, Head(rs), Head(picks), SignalsOf(Head(rs)), now),
                      now)

\* Lines 587-767: the returned list (sorted, line 765), the mention tables
\* after the commit, and the score computed for each input result.
evaluate_relevance(rs, picks, cos, locs, now) ==
    [EvaluateLoop(rs, picks,
                  [relevant |-> <<>>, companies |-> cos, locations |-> locs,
                   scores |-> <<>>], now)
     EXCEPT !.relevant = SortByScore(@)]

\* The possible first names, one per result.
RECURSIVE AllPicks(_)
AllPicks(rs) ==
    IF rs = <<>> THEN {<<>>}
    ELSE {<<c>> \o rest : c \in PrimaryChoices(SignalsOf(Head(rs))), rest \in AllPicks(Tail(rs))}

(***************************************************************************)
(* send_email_notification(receiver_email), lines 861-985.  `notifier` is  *)
(* the state of the mail side during the call: "no_credentials"            *)
(* (EMAIL_USERNAME or EMAIL_PASSWORD unset), "smtp_error" (connection,     *)
(* STARTTLS, login or send raises), "db_error" (the message is sent, then  *)
(* an UPDATE or the commit raises and nothing is committed) or "ok".       *)
(***************************************************************************)
Notifiers == {"ok", "smtp_error", "no_credentials", "db_error"}

\* Lines 879-884: the ids of the unsent projects (the ORDER BY only orders
\* the digest's text).
UnsentIds(rows) == {rows[i].id : i \in {k \in 1..Len(rows) : rows[k].is_sent = 0}}

\* Lines 974-975.
MarkSent(rows, ids) ==
    [i \in 1..Len(rows) |-> IF rows[i].id \in ids THEN [rows[i] EXCEPT !.is_sent = 1]
                            ELSE rows[i]]

\* Marking that runs whatever the dispatch did.
send_email_notification_marksAlways(rows, notifier) ==
    [projects |-> MarkSent(rows, UnsentIds(rows)), returned |-> notifier = "ok",
     digest |-> UnsentIds(rows), dispatched |-> notifier = "ok"]

\* Marking that resets the flag of the projects already sent.
send_email_notification_resets(rows, notifier) ==
    IF notifier = "ok" /\ UnsentIds(rows) # {}
    THEN [projects |-> [i \in 1..Len(rows) |-> [rows[i] EXCEPT !.is_sent = 1 - @]],
          returned |-> TRUE, digest |-> UnsentIds(rows), dispatched |-> TRUE]
    ELSE [projects |-> rows, returned |-> FALSE, digest |-> {}, dispatched |-> FALSE]

\* The projects table after the call, the value returned, the digest built
\* and whether it was dispatched.
send_email_notification(rows, notifier) ==
    IF notifier = "no_credentials"
    THEN [projects |-> rows, returned |-> FALSE, digest |-> {}, dispatched |-> FALSE]
    ELSE IF UnsentIds(rows) = {}
    THEN [projects |-> rows, returned |-> FALSE, digest |-> {}, dispatched |-> FALSE]
    ELSE IF notifier \in {"smtp_error", "db_error"}
    THEN [projects |-> rows, returned |-> FALSE, digest |-> UnsentIds(rows),
          dispatched |-> notifier = "db_error"]
    ELSE [projects |-> MarkSent(rows, UnsentIds(rows)), returned |-> TRUE,
          digest |-> UnsentIds(rows), dispatched |-> TRUE]

(***************************************************************************)
(* The deduplication gate on its own: save_to_database called on candidate *)
(* lists, from the empty store.                                            *)
(***************************************************************************)
Candidate(title, link, snippet) ==
    [title |-> title, link |-> link, snippet |-> snippet,
     content_hash |-> ContentHash(title, snippet),
     relevance_score |-> 45,
     extracted_company |-> <<"KPMG">>, extracted_location |-> <<"Greece">>,
     project_type |-> "Office Project",
     estimated_size |-> NoText, date_reported |-> NoDate]

GateCandidates ==
    { Candidate(T_kpmg, "u1", S_en),      \* the first report
      Candidate(T_new, "u1", S_short),    \* the same URL, other content
      Candidate(T_new, "u8", S_short),    \* that short content, other URL
      Candidate(T_kpmg, "u2", S_en),      \* the same title and snippet, other URL
      Candidate(T_new, "u3", S_enLow),    \* the same snippet in lower case
      Candidate(T_kpmg, "u4", S_el),      \* a Greek report
      Candidate(T_new, "u5", S_el),       \* its snippet under another title
      Candidate(T_kpmg, "u6", S_22a),     \* 22 words
      Candidate(T_new, "u7", S_22b) }     \* the same first 20 words

\* The candidates that come second in a list of two.
GateSeconds ==
    { Candidate(T_kpmg, "u2", S_en),
      Candidate(T_new, "u5", S_el),
      Candidate(T_new, "u8", S_short) }

GateLists ==
    {<<>>} \cup {<<a>> : a \in GateCandidates}
           \cup {<<a, b>> : a \in GateCandidates, b \in GateSeconds}

NoSave == [called |-> FALSE, list |-> <<>>, before |-> <<>>, count |-> 0, prev |-> <<>>]
NoSend == [called |-> FALSE, notifier |-> "none", digest |-> {}, before |-> <<>>,
           returned |-> FALSE, dispatched |-> FALSE]
NoEval == [called |-> FALSE, results |-> <<>>, scores |-> <<>>,
           companies |-> {}, locations |-> {}]
NoReport == [printed |-> FALSE, lines |-> <<>>]
NoScript == [at |-> "shell", tty |-> FALSE, mains |-> 0, searched |-> <<>>]
\* office_tracker_gui.py lines 33-37 and 154: the host after __init__, the
\* settings holding the API keys or not.
GuiInit(configured) ==
    [configured |-> configured, is_running |-> FALSE, stop_event |-> FALSE,
     run_button |-> TRUE, loops |-> <<>>, queue |-> <<>>, ui |-> "idle",
     workers |-> 0, toggles |-> 0, clicks |-> 0, firings |-> 0, stale_fired |-> FALSE]
NoGui == GuiInit(FALSE)
NoTextCall == [is_str |-> TRUE, text |-> <<>>, language |-> "en",
               project_type |-> "none", detected |-> "none",
               extracted |-> FALSE, companies |-> {},
               dated |-> FALSE, date_reported |-> NoDate]
NoSearch == [called |-> FALSE, max_queries |-> 0, log |-> <<>>, now |-> 0,
             successful_queries |-> <<>>, outcomes |-> <<>>, queries |-> <<>>,
             attempted |-> <<>>, fetched |-> <<>>, events |-> <<>>]

InitStore ==
    /\ projects = <<>>
    /\ companies = {}
    /\ locations = {}
    /\ analytics = <<>>
    /\ search_log = <<>>
    /\ today = 1

InitGate ==
    /\ InitStore
    /\ pc = "idle"
    /\ env = <<>>
    /\ results = <<>>
    /\ relevant_results = <<>>
    /\ new_projects_count = 0
    /\ last_save = NoSave
    /\ last_send = NoSend
    /\ last_eval = NoEval
    /\ last_search = NoSearch
    /\ text_call = NoTextCall
    /\ outbox = <<>>
    /\ gui = NoGui
    /\ script = NoScript
    /\ report = NoReport
    /\ at_start = <<>>
    /\ runs = 0

GateSave(plist) ==
    /\ runs < MaxCalls
    /\ UNCHANGED text_call
    /\ UNCHANGED outbox
    /\ UNCHANGED gui
    /\ UNCHANGED script
    /\ UNCHANGED report
    /\ LET out == save_to_database(projects, analytics, plist, today) IN
       /\ projects' = out.projects
       /\ analytics' = out.analytics
       /\ last_save' = [called |-> TRUE, list |-> plist, before |-> projects,
                        count |-> out.count, prev |-> last_save.list]
    /\ runs' = runs + 1
    /\ UNCHANGED <<companies, locations, search_log, today, pc, env, results,
                   relevant_results, new_projects_count, last_send, last_eval,
                   last_search, at_start>>

NextGate == \E plist \in GateLists : GateSave(plist)

SpecGate == InitGate /\ [][NextGate]_vars

(***************************************************************************)
(* Claims about the deduplication gate (specification SpecGate).           *)
(***************************************************************************)

\* C1: after any sequence of save_to_database calls from the empty store, no
\* two rows of the projects table have the same source URL and no two rows
\* have the same content hash.
C1_UniqueUrlAndHash ==
    \A i, j \in 1..Len(projects) :
        i # j => /\ projects[i].source_url # projects[j].source_url
                 /\ projects[i].content_hash # projects[j].content_hash

\* C1 (case reached): a candidate with the title and snippet of a stored row
\* and another URL was presented (Scenario C), and the store holds two rows.
C1_Witness ==
    /\ last_save.called
    /\ Len(projects) >= 2
    /\ \E k \in 1..Len(last_save.list) : \E i \in 1..Len(projects) :
           /\ projects[i].content_hash = last_save.list[k].content_hash
           /\ projects[i].source_url # last_save.list[k].link

\* Rule 3 as the specification words it: the snippet has more than 10 words
\* and its first 20 words occur as a substring of a stored description (read
\* in the claim's favour: letter case is ignored, as lower-casing intends).
SpecifiedNearDuplicate(rows, project) ==
    LET words == Split(project.snippet)
    IN  /\ Len(words) > SubstantialWords
        /\ \E i \in 1..Len(rows) :
               IsSubstring(Lower(Join(Take(words, SimpleWords))),
                           Lower(rows[i].description))

\* The gate as the specification words it: rules 1, 2, 3 in order, the first
\* match rejects, every other candidate is inserted with sent-flag 0.
RECURSIVE SpecifiedGate(_, _, _, _)
SpecifiedGate(rows, plist, count, now) ==
    IF plist = <<>> THEN [projects |-> rows, count |-> count]
    ELSE LET project == Head(plist)
             url_stored == \E i \in 1..Len(rows) : rows[i].source_url = project.link
             hash_stored == \E i \in 1..Len(rows) :
                                rows[i].content_hash = project.content_hash
         IN  IF url_stored \/ hash_stored \/ SpecifiedNearDuplicate(rows, project)
             THEN SpecifiedGate(rows, Tail(plist), count, now)
             ELSE SpecifiedGate(Append(rows, NewProjectRow(rows, project, now)),
                                Tail(plist), count + 1, now)

\* C2: save_to_database decides each candidate, in list order, against the
\* store as it stands: rejected if its URL is stored, else if its content
\* hash is stored, else if its snippet has more than 10 words and its first
\* 20 words occur in a stored description; otherwise exactly one row is
\* inserted with is_sent = 0, and the returned count is the number of rows
\* inserted.
C2_GateAsSpecified ==
    last_save.called =>
        LET spec == SpecifiedGate(last_save.before, last_save.list, 0, today)
        IN  /\ projects = spec.projects
            /\ last_save.count = spec.count

\* C3: calling save_to_database a second time with the same candidate list
\* inserts no row (returns 0) and leaves the projects table as it was after
\* the first call.
C3_Idempotent ==
    (last_save.called /\ runs >= 2 /\ last_save.prev = last_save.list) =>
        /\ last_save.count = 0
        /\ projects = last_save.before

\* C3 (case reached): a list of two candidates, both inserted by the first
\* call, was passed again.
C3_Witness ==
    /\ last_save.called /\ runs >= 2
    /\ last_save.prev = last_save.list
    /\ Len(last_save.list) = 2
    /\ Len(last_save.before) = 2
    /\ last_save.count = 0

(***************************************************************************)
(* main(), lines 1236-1339, one action per step.  The runs modelled are    *)
(* configured with MAX_SEARCH_QUERIES = 1, so each run sends the first     *)
(* query of the list; only that query is ever logged, so the history       *)
(* (lines 225-244) keeps it first.  The pages of the model carry no digit, *)
(* so no publication date and no reported date is found.  The weekly steps *)
(* (perform_maintenance, the analytics report) touch neither the projects  *)
(* table nor the mention counts and are left out.                          *)
(***************************************************************************)
\* Lines 169-191: the base queries, nine English and ten Greek.
BaseQueries ==
    <<Sentence(<<"office", "projects">>),
      Sentence(<<"new", "office", "development">>),
      Sentence(<<"commercial", "real", "estate", "acquisition">>),
      Sentence(<<"office", "relocation">>),
      Sentence(<<"office", "building", "purchase">>),
      Sentence(<<"new", "headquarters">>),
      Sentence(<<"corporate", "office", "move">>),
      Sentence(<<"office", "space", "leasing">>),
      Sentence(<<"business", "district", "development">>),
      Sentence(<<"γραφεία", "έργα">>),
      Sentence(<<"νέα", "γραφεία">>),
      Sentence(<<"επαγγελματικά", "ακίνητα">>),
      Sentence(<<"ανάπτυξη", "γραφείων">>),
      Sentence(<<"αγορά", "κτιρίου", "γραφείων">>),
      Sentence(<<"μετεγκατάσταση", "γραφείων">>),
      Sentence(<<"επαγγελματική", "στέγη">>),
      Sentence(<<"νέα", "έδρα", "εταιρείας">>),
      Sentence(<<"επένδυση", "ακινήτων", "γραφείων">>),
      Sentence(<<"εμπορικό", "ακίνητο">>)>>

\* Lines 194-195: search_web's local `locations`.
SearchLocations ==
    <<<<"Athens">>, <<"Thessaloniki">>, <<"Patras">>, <<"Heraklion">>, <<"Piraeus">>,
      <<"Αθήνα">>, <<"Θεσσαλονίκη">>, <<"Πάτρα">>, <<"Ηράκλειο">>, <<"Πειραιάς">>>>

\* Lines 207-211.
project_types ==
    <<Sentence(<<"office", "renovation">>), Sentence(<<"office", "expansion">>),
      Sentence(<<"office", "campus">>), Sentence(<<"tech", "hub">>),
      Sentence(<<"corporate", "campus">>), Sentence(<<"innovation", "center">>),
      Sentence(<<"ανακαίνιση", "γραφείων">>), Sentence(<<"επέκταση", "γραφείων">>),
      Sentence(<<"κέντρο", "καινοτομίας">>)>>

\* s[a:b] for 0 <= a <= b, and s[:n] for any integer n (a negative n counts
\* from the end).
Slice(s, a, b) == SubSeq(s, a + 1, Min(b, Len(s)))
SliceTo(s, n) == IF n >= 0 THEN Take(s, n)
                 ELSE IF Len(s) + n > 0 THEN SubSeq(s, 1, Len(s) + n) ELSE <<>>

\* The pairs of two nested loops, in the order the loops visit them.
NestedLoops(outer, inner) ==
    [k \in 1..(Len(outer) * Len(inner)) |->
        <<outer[((k - 1) \div Len(inner)) + 1], inner[((k - 1) % Len(inner)) + 1]>>]

\* Lines 197-200: the first six base queries at the first five locations.
LocationQueries(search_queries) ==
    LET pairs == SelectSeq(NestedLoops(Slice(search_queries, 0, 6),
                                       Slice(SearchLocations, 0, 5)),
                           LAMBDA p : ~IsSubstring(<<"Greece">>, p[1]))
    IN  [k \in 1..Len(pairs) |->
            pairs[k][1] \o <<" ", "in", " ">> \o pairs[k][2] \o <<",", " ", "Greece">>]

\* Lines 202-204: the queries at positions 9..14 at the Greek locations.
GreekLocationQueries(search_queries) ==
    LET pairs == NestedLoops(Slice(search_queries, 9, 15),
                             Slice(SearchLocations, 5, Len(SearchLocations)))
    IN  [k \in 1..Len(pairs) |-> pairs[k][1] \o <<" ">> \o pairs[k][2]]

\* Lines 213-218.
ProjectTypeQueries == [k \in 1..Len(project_types) |-> project_types[k] \o <<" ", "Greece">>]
CompanyQueries ==
    [k \in 1..Len(EXAMPLE_COMPANIES) |->
        EXAMPLE_COMPANIES[k] \o <<" ", "new", " ", "office", " ", "Greece">>]

\* Lines 169-218: the generated queries, in construction order.
WithLocations == BaseQueries \o LocationQueries(BaseQueries)
GeneratedQueries ==
    WithLocations \o GreekLocationQueries(WithLocations) \o ProjectTypeQueries
        \o CompanyQueries

\* Lines 223-232: the rows of the last seven days with results.  The stored
\* date carries the time of day and the cutoff does not, so as strings every
\* row of the cutoff day is greater than the cutoff.
HistoryDays == 7
HistoryLimit == 5
RecentRows(log, now) ==
    {i \in 1..Len(log) : /\ log[i].date_searched >= now - HistoryDays
                         /\ log[i].results_count > 0}

RECURSIVE SumResults(_, _)
SumResults(log, rows) ==
    IF rows = {} THEN 0
    ELSE LET i == CHOOSE i \in rows : TRUE
         IN  log[i].results_count + SumResults(log, rows \ {i})

\* SUM(results_count) of a query's group.
TotalResults(log, now, query) ==
    SumResults(log, {i \in RecentRows(log, now) : log[i].query = query})

\* ORDER BY SUM(results_count) DESC LIMIT n over the groups: every order
\* the database may return (groups of equal sum come in any order).
RECURSIVE TopOrders(_, _, _, _)
TopOrders(log, now, groups, n) ==
    IF n = 0 \/ groups = {} THEN {<<>>}
    ELSE UNION {{<<q>> \o rest : rest \in TopOrders(log, now, groups \ {q}, n - 1)} :
                q \in {q \in groups :
                          \A p \in groups :
                              TotalResults(log, now, p) <= TotalResults(log, now, q)}}

\* The orders with the date filter left out.
SuccessfulOrders_anyDate(log, now) ==
    TopOrders(log, 0, {log[i].query : i \in RecentRows(log, 0)}, HistoryLimit)

\* Lines 226-234: the values `successful_queries` may take.
SuccessfulOrders(log, now) ==
    TopOrders(log, now, {log[i].query : i \in RecentRows(log, now)}, HistoryLimit)

\* The list with the successful queries not removed from the generated ones.
PlannedQueries_notRemoved(successful_queries, max_queries) ==
    SliceTo(successful_queries \o GeneratedQueries, max_queries)

\* Lines 242-246: the queries search_web issues.
PlannedQueries(successful_queries, max_queries) ==
    SliceTo(successful_queries
                \o SelectSeq(GeneratedQueries,
                             LAMBDA q : \A i \in 1..Len(successful_queries) :
                                            successful_queries[i] # q),
            max_queries)

\* The responses of the search request.
Responses ==
    {<<>>, <<I_lease>>, <<I_lease, I_again>>, <<I_firm>>, <<I_greek>>,
     <<I_greek, I_lease>>, <<I_again, I_firm>>}

\* What the search request of a query does: "ok" (200 with `items`),
\* "non200", or "error" (the request raises before searches_performed is
\* incremented).
Outcome(status, items) == [status |-> status, items |-> items]

\* The outcome of the i-th request, the requests' outcomes being given as a
\* pattern that repeats.
OutcomeAt(outcomes, i) == outcomes[((i - 1) % Len(outcomes)) + 1]

\* The item loop without the duplicate check.
RECURSIVE CollectItems_noSkip(_, _, _)
CollectItems_noSkip(items, query, st) ==
    IF items = <<>> THEN st
    ELSE CollectItems_noSkip(Tail(items), query,
             [st EXCEPT !.all_results = Append(@, RawResult(Head(items), query)),
                        !.fetched = Append(@, Head(items).link)])

\* Lines 279-379: the loop over the items, skipping a content hash already
\* collected; the page of every other item is requested.
RECURSIVE CollectItems(_, _, _)
CollectItems(items, query, st) ==
    IF items = <<>> THEN st
    ELSE IF \E i \in 1..Len(st.all_results) :
                st.all_results[i].content_hash
                    = ContentHash(Head(items).title, Head(items).snippet)
         THEN CollectItems(Tail(items), query, st)
         ELSE CollectItems(Tail(items), query,
                  [st EXCEPT !.all_results = Append(@, RawResult(Head(items), query)),
                             !.fetched = Append(@, Head(items).link)])

\* Line 380: time.sleep(2), the last statement of the branch of a 200
\* response.
Pause(st) == [st EXCEPT !.events = Append(@, "pause")]

\* Lines 252-385: one query.  `events` records the search requests (line
\* 263) and the pauses (line 380) in the order the loop makes them.
SearchOne(st, query, outcome, now) ==
    IF outcome.status = "error"
    THEN [st EXCEPT !.attempted = Append(@, query),
                    !.events = Append(@, "request")]
    ELSE IF outcome.status = "non200"
    THEN [st EXCEPT !.attempted = Append(@, query), !.searches_performed = @ + 1,
                    !.events = Append(@, "request")]
    ELSE Pause(CollectItems(outcome.items, query,
             [st EXCEPT !.attempted = Append(@, query),
                        !.searches_performed = @ + 1,
                        !.events = Append(@, "request"),
                        !.search_log = Append(@, [query |-> query,
                                                  language |-> QueryLanguage(query),
                                                  date_searched |-> now,
                                                  results_count |-> Len(outcome.items)])]))

\* A loop that stops at the first query that fails.
RECURSIVE SearchLoop_stopsOnFailure(_, _, _, _, _)
SearchLoop_stopsOnFailure(queries, outcomes, i, st, now) ==
    IF i > Len(queries) THEN st
    ELSE IF OutcomeAt(outcomes, i).status # "ok"
    THEN SearchOne(st, queries[i], OutcomeAt(outcomes, i), now)
    ELSE SearchLoop_stopsOnFailure(queries, outcomes, i + 1,
             SearchOne(st, queries[i], OutcomeAt(outcomes, i), now), now)

\* Lines 251-385: the loop over the queries.
RECURSIVE SearchLoop(_, _, _, _, _)
SearchLoop(queries, outcomes, i, st, now) ==
    IF i > Len(queries) THEN st
    ELSE SearchLoop(queries, outcomes, i + 1,
                    SearchOne(st, queries[i], OutcomeAt(outcomes, i), now), now)

\* The state of the loop: the results and what the loop has requested.
SearchStart(log) ==
    [all_results |-> <<>>, search_log |-> log, searches_performed |-> 0,
     attempted |-> <<>>, fetched |-> <<>>, events |-> <<>>]

\* Lines 387-411: the analytics row and the returned list.
Searched(tbl, queries, st, now) ==
    [results |-> st.all_results,
     search_log |-> st.search_log,
     analytics |-> Append(tbl, [date |-> now,
                                searches_performed |-> st.searches_performed,
                                results_found |-> Len(st.all_results),
                                relevant_results |-> NULL]),
     queries |-> queries, attempted |-> st.attempted, fetched |-> st.fetched,
     events |-> st.events]

\* Lines 163-411.  `successful_queries` is what the history query returned
\* and `outcomes` what the search requests do.  (The history query is
\* taken to succeed: main has created the tables before.)
search_web(log, tbl, max_queries, successful_queries, outcomes, now) ==
    Searched(tbl, PlannedQueries(successful_queries, max_queries),
             SearchLoop(PlannedQueries(successful_queries, max_queries), outcomes, 1,
                        SearchStart(log), now),
             now)

SearchRecord(max_queries, successful_queries, outcomes, out) ==
    [called |-> TRUE, max_queries |-> max_queries, log |-> search_log, now |-> today,
     successful_queries |-> successful_queries, outcomes |-> outcomes,
     queries |-> out.queries, attempted |-> out.attempted, fetched |-> out.fetched,
     events |-> out.events]

\* MAX_SEARCH_QUERIES in the environment of the pipeline's runs.
PipelineMaxQueries == 1

Init ==
    /\ InitStore
    /\ pc = "idle"
    /\ env = [credentials |-> TRUE, notifier |-> "ok"]
    /\ results = <<>>
    /\ relevant_results = <<>>
    /\ new_projects_count = 0
    /\ last_save = NoSave
    /\ last_send = NoSend
    /\ last_eval = NoEval
    /\ last_search = NoSearch
    /\ text_call = NoTextCall
    /\ outbox = <<>>
    /\ gui = NoGui
    /\ script = NoScript
    /\ report = NoReport
    /\ at_start = <<>>
    /\ runs = 0

\* A start that goes on to the search without the credentials.
MainStart_noCheck(credentials, notifier, day) ==
    /\ pc \in {"idle", "done"}
    /\ UNCHANGED text_call
    /\ UNCHANGED outbox
    /\ UNCHANGED gui
    /\ UNCHANGED script
    /\ report' = NoReport
    /\ runs < MaxRuns
    /\ runs' = runs + 1
    /\ today' = day
    /\ env' = [credentials |-> credentials, notifier |-> notifier]
    /\ pc' = "search"
    /\ results' = <<>>
    /\ relevant_results' = <<>>
    /\ new_projects_count' = 0
    /\ last_save' = NoSave
    /\ last_send' = NoSend
    /\ last_eval' = NoEval
    /\ last_search' = NoSearch
    /\ at_start' = projects
    /\ UNCHANGED <<projects, companies, locations, analytics, search_log>>

\* Lines 1236-1259: a run starts, in some environment; without API
\* credentials it returns at once.
MainStart(credentials, notifier, day) ==
    /\ pc \in {"idle", "done"}
    /\ UNCHANGED text_call
    /\ UNCHANGED outbox
    /\ UNCHANGED gui
    /\ UNCHANGED script
    /\ report' = NoReport
    /\ runs < MaxRuns
    /\ runs' = runs + 1
    /\ today' = day
    /\ env' = [credentials |-> credentials, notifier |-> notifier]
    /\ pc' = IF credentials THEN "search" ELSE "done"
    /\ results' = <<>>
    /\ relevant_results' = <<>>
    /\ new_projects_count' = 0
    /\ last_save' = NoSave
    /\ last_send' = NoSend
    /\ last_eval' = NoEval
    /\ last_search' = NoSearch
    /\ at_start' = projects
    /\ UNCHANGED <<projects, companies, locations, analytics, search_log>>

\* The call's effects: the returned list, the tables and the record.
Searching(max_queries, successful_queries, outcomes, out) ==
    /\ results' = out.results
    /\ search_log' = out.search_log
    /\ analytics' = out.analytics
    /\ last_search' = SearchRecord(max_queries, successful_queries, outcomes, out)

\* Lines 1267-1273.
SearchWeb(successful_queries, outcomes) ==
    /\ pc = "search"
    /\ UNCHANGED text_call
    /\ UNCHANGED outbox
    /\ UNCHANGED gui
    /\ UNCHANGED script
    /\ UNCHANGED report
    /\ Searching(PipelineMaxQueries, successful_queries, outcomes,
                 search_web(search_log, analytics, PipelineMaxQueries,
                            successful_queries, outcomes, today))
    /\ pc' = IF results' # <<>> THEN "evaluate" ELSE "report"
    /\ UNCHANGED <<projects, companies, locations, today, env, relevant_results,
                   new_projects_count, last_save, last_send, last_eval, at_start, runs>>

\* The call's effects: the returned list and the mention tables.
Evaluated(rs, out) ==
    /\ relevant_results' = out.relevant
    /\ companies' = out.companies
    /\ locations' = out.locations
    /\ last_eval' = [called |-> TRUE, results |-> rs, scores |-> out.scores,
                     companies |-> companies, locations |-> locations]

\* Lines 1274-1278.
EvaluateRelevance(picks) ==
    /\ pc = "evaluate"
    /\ UNCHANGED text_call
    /\ UNCHANGED outbox
    /\ UNCHANGED gui
    /\ UNCHANGED script
    /\ UNCHANGED report
    /\ Evaluated(results, evaluate_relevance(results, picks, companies, locations, today))
    /\ pc' = "save"
    /\ UNCHANGED <<projects, analytics, search_log, today, env, results,
                   new_projects_count, last_save, last_send, last_search, at_start, runs>>

\* Lines 1280-1282.
SaveToDatabase ==
    /\ pc = "save"
    /\ UNCHANGED text_call
    /\ UNCHANGED outbox
    /\ UNCHANGED gui
    /\ UNCHANGED script
    /\ UNCHANGED report
    /\ LET out == save_to_database(projects, analytics, relevant_results, today) IN
       /\ projects' = out.projects
       /\ analytics' = out.analytics
       /\ new_projects_count' = out.count
       /\ last_save' = [called |-> TRUE, list |-> relevant_results, before |-> projects,
                        count |-> out.count, prev |-> <<>>]
    /\ pc' = "notify"
    /\ UNCHANGED <<companies, locations, search_log, today, env, results,
                   relevant_results, last_send, last_eval, last_search, at_start, runs>>

\* Line 971: server.send_message(msg) returned; every project of the digest
\* has been delivered once more.
Delivered(box, digest) ==
    [id \in DOMAIN box \cup digest |->
        (IF id \in DOMAIN box THEN box[id] ELSE 0) + (IF id \in digest THEN 1 ELSE 0)]

\* Lines 1284-1293: the notification, only when the run stored a project.
\* The deliveries are counted in outbox when `recorded`.
Notifying(recorded) ==
    /\ pc = "notify"
    /\ UNCHANGED text_call
    /\ UNCHANGED gui
    /\ UNCHANGED script
    /\ UNCHANGED report
    /\ IF new_projects_count > 0
       THEN LET out == send_email_notification(projects, env.notifier) IN
            /\ projects' = out.projects
            /\ last_send' = [called |-> TRUE, notifier |-> env.notifier,
                             digest |-> out.digest, before |-> projects,
                             returned |-> out.returned, dispatched |-> out.dispatched]
            /\ outbox' = IF recorded /\ out.dispatched
                         THEN Delivered(outbox, out.digest) ELSE outbox
       ELSE UNCHANGED <<projects, last_send, outbox>>
    /\ pc' = "report"
    /\ UNCHANGED <<companies, locations, analytics, search_log, today, env, results,
                   relevant_results, new_projects_count, last_save, last_eval,
                   last_search, at_start, runs>>

Notify == Notifying(FALSE)

\* Lines 1320-1335: the lines of the summary.
Summary(found, relevant, added) ==
    IF found # <<>>
    THEN <<[says |-> "found", count |-> Len(found)]>>
         \o (IF relevant # <<>>
             THEN <<[says |-> "relevant", count |-> Len(relevant)]>>
                  \o (IF added > 0
                      THEN <<[says |-> "added", count |-> added],
                             [says |-> "sent notification", count |-> added]>>
                      ELSE <<[says |-> "no new projects", count |-> 0]>>)
             ELSE <<[says |-> "no relevant projects", count |-> 0]>>)
    ELSE <<[says |-> "no results", count |-> 0]>>

\* Lines 1298-1335: the closing banner and the summary.
Report ==
    /\ pc = "report"
    /\ UNCHANGED text_call
    /\ UNCHANGED outbox
    /\ UNCHANGED gui
    /\ UNCHANGED script
    /\ report' = [printed |-> TRUE,
                  lines |-> Summary(results, relevant_results, new_projects_count)]
    /\ pc' = "done"
    /\ UNCHANGED <<projects, companies, locations, analytics, search_log, today, env,
                   results, relevant_results, new_projects_count, last_save,
                   last_send, last_eval, last_search, at_start, runs>>

Next ==
    \/ \E credentials \in BOOLEAN, notifier \in Notifiers, day \in {today, today + 1} :
           MainStart(credentials, notifier, day)
    \/ \E successful_queries \in SuccessfulOrders(search_log, today),
          status \in {"ok", "non200", "error"}, items \in Responses :
           SearchWeb(successful_queries, <<Outcome(status, items)>>)
    \/ \E picks \in AllPicks(results) : EvaluateRelevance(picks)
    \/ SaveToDatabase
    \/ Notify
    \/ Report

Spec == Init /\ [][Next]_vars

(***************************************************************************)
(* The command-line script, lines 1341-1351 (specification SpecScript):    *)
(* `python office_tracker.py` executes the module's two `__main__` blocks  *)
(* in order.  script.at is the statement the script is at; main is running *)
(* while pc is neither "idle" nor "done".                                  *)
(***************************************************************************)
\* The steps of main after its start: the disjuncts of Next but the first.
RunSteps ==
    \/ \E successful_queries \in SuccessfulOrders(search_log, today),
          status \in {"ok", "non200", "error"}, items \in Responses :
           SearchWeb(successful_queries, <<Outcome(status, items)>>)
    \/ \E picks \in AllPicks(results) : EvaluateRelevance(picks)
    \/ SaveToDatabase
    \/ Notify
    \/ Report

\* The interpreter starts the script; stdin is a terminal or not.
Invoke(tty) ==
    /\ script.at \in {"shell", "exit"}
    /\ pc \in {"idle", "done"}
    /\ runs + 2 <= MaxRuns
    /\ script' = [at |-> "line 1342", tty |-> tty, mains |-> 0, searched |-> <<>>]
    /\ pc' = "idle"
    /\ UNCHANGED <<projects, companies, locations, analytics, search_log, today, env,
                   results, relevant_results, new_projects_count, last_save, last_send,
                   last_eval, last_search, text_call, gui, report, outbox, at_start, runs>>

\* Lines 1342 and 1351: main() is called.  The environment of the second
\* call is the environment of the first.
CallMain(credentials, notifier, day) ==
    /\ script.at \in {"line 1342", "line 1351"}
    /\ pc = "idle"
    /\ script.at = "line 1351" => credentials = env.credentials
    /\ MainStart(credentials, notifier, day)

\* main() returns to the script: to lines 1344-1348 after the first block's
\* call (input() only when stdin is a terminal), to the end of the file
\* after the second block's.
MainReturns ==
    /\ script.at \in {"line 1342", "line 1351"}
    /\ pc = "done"
    /\ script' = [script EXCEPT
                     !.at = IF script.at = "line 1351" THEN "exit"
                            ELSE IF script.tty THEN "line 1348" ELSE "line 1351",
                     !.mains = @ + 1,
                     !.searched = @ \o last_search.attempted]
    /\ pc' = "idle"
    /\ UNCHANGED <<projects, companies, locations, analytics, search_log, today, env,
                   results, relevant_results, new_projects_count, last_save, last_send,
                   last_eval, last_search, text_call, gui, report, outbox, at_start, runs>>

\* Line 1348: input() returns when Enter is pressed.
PressEnter ==
    /\ script.at = "line 1348"
    /\ script' = [script EXCEPT !.at = "line 1351"]
    /\ UNCHANGED <<projects, companies, locations, analytics, search_log, today, pc, env,
                   results, relevant_results, new_projects_count, last_save, last_send,
                   last_eval, last_search, text_call, gui, report, outbox, at_start, runs>>

\* Line 1348: input() raises (end of file, Ctrl-C), which ends the script.
InputRaises ==
    /\ script.at = "line 1348"
    /\ script' = [script EXCEPT !.at = "exit"]
    /\ UNCHANGED <<projects, companies, locations, analytics, search_log, today, pc, env,
                   results, relevant_results, new_projects_count, last_save, last_send,
                   last_eval, last_search, text_call, gui, report, outbox, at_start, runs>>

NextScript ==
    \/ \E tty \in BOOLEAN : Invoke(tty)
    \/ \E credentials \in BOOLEAN, notifier \in Notifiers, day \in {today, today + 1} :
           CallMain(credentials, notifier, day)
    \/ RunSteps
    \/ MainReturns
    \/ PressEnter
    \/ InputRaises

SpecScript == Init /\ [][NextScript]_vars

\* C29: one command-line invocation performs exactly one pipeline run.  When
\* the script has ended, main was executed once and no query was searched
\* twice.
C29_OneRunPerInvocation ==
    script.at = "exit" =>
        /\ script.mains = 1
        /\ \A i, j \in 1..Len(script.searched) :
               script.searched[i] = script.searched[j] => i = j

(***************************************************************************)
(* The GUI host, office_tracker_gui.py lines 374-473 (specification        *)
(* SpecGui).  The UI thread takes one event at a time: a click, or the     *)
(* callback at the head of the queue of root.after(0, ...).  gui.loops are *)
(* the scheduler_loop threads in the order they were started, gui.workers  *)
(* the threads run_once started that are in run_search_job, and gui.ui is  *)
(* "job" while the UI thread itself is in run_search_job.  The callbacks   *)
(* that only write a label are left out.                                   *)
(***************************************************************************)
MaxToggles == 3
MaxClicks == 2
MaxFirings == 2

\* Every variable but gui.
HostUnchanged ==
    UNCHANGED <<projects, companies, locations, analytics, search_log, today, pc, env,
                results, relevant_results, new_projects_count, last_save, last_send,
                last_eval, last_search, text_call, script, report, outbox,
                at_start, runs>>

InitGui ==
    /\ InitStore
    /\ pc = "idle"
    /\ env = <<>>
    /\ results = <<>>
    /\ relevant_results = <<>>
    /\ new_projects_count = 0
    /\ last_save = NoSave
    /\ last_send = NoSend
    /\ last_eval = NoEval
    /\ last_search = NoSearch
    /\ text_call = NoTextCall
    /\ script = NoScript
    /\ outbox = <<>>
    /\ report = NoReport
    /\ \E configured \in BOOLEAN : gui = GuiInit(configured)
    /\ at_start = <<>>
    /\ runs = 0

\* A scheduler_loop thread that has not returned.
Live(loop) == loop.at # "ended"

\* Lines 376-383: the scheduler is stopped.  Every live loop has now seen a
\* stop after its start.
StopScheduler(g) ==
    [g EXCEPT !.stop_event = TRUE,
              !.is_running = FALSE,
              !.loops = [k \in 1..Len(g.loops) |->
                            IF Live(g.loops[k]) THEN [g.loops[k] EXCEPT !.stopped = TRUE]
                            ELSE g.loops[k]]]

\* Lines 391-400: the scheduler is started: the event is cleared and a new
\* scheduler_loop thread is started.  A live loop that saw a stop has now
\* been followed by a start.
StartScheduler(g) ==
    [g EXCEPT !.stop_event = FALSE,
              !.is_running = TRUE,
              !.loops = Append([k \in 1..Len(g.loops) |->
                                   IF Live(g.loops[k]) /\ g.loops[k].stopped
                                   THEN [g.loops[k] EXCEPT !.restarted = TRUE]
                                   ELSE g.loops[k]],
                               [at |-> "while", stopped |-> FALSE, restarted |-> FALSE])]

\* Lines 374-402, toggle_scheduler, on the UI thread.
ToggleScheduler ==
    /\ gui.ui = "idle"
    /\ gui.toggles < MaxToggles
    /\ gui' = [(IF gui.is_running THEN StopScheduler(gui)
                ELSE IF ~gui.configured THEN gui
                ELSE StartScheduler(gui))
               EXCEPT !.toggles = @ + 1]
    /\ HostUnchanged

\* Line 408: the test of the while loop of scheduler_loop k.
LoopTest(k) ==
    /\ gui.loops[k].at = "while"
    /\ gui' = [gui EXCEPT !.loops[k].at = IF gui.stop_event THEN "ended" ELSE "body"]
    /\ HostUnchanged

\* Lines 409-420: the body of the loop; when the run is due (`due`),
\* run_search_job is queued for the UI thread.
LoopBody(k, due) ==
    /\ gui.loops[k].at = "body"
    /\ due => gui.firings < MaxFirings
    /\ gui' = [gui EXCEPT
                  !.loops[k].at = "sleep",
                  !.queue = IF due THEN Append(@, "run_search_job") ELSE @,
                  !.firings = IF due THEN @ + 1 ELSE @,
                  !.stale_fired = @ \/ (due /\ gui.loops[k].restarted)]
    /\ HostUnchanged

\* Line 423: time.sleep(1) returns.
LoopWakes(k) ==
    /\ gui.loops[k].at = "sleep"
    /\ gui' = [gui EXCEPT !.loops[k].at = "while"]
    /\ HostUnchanged

\* Lines 425-437, run_once, on the UI thread: a click on the enabled button.
RunOnce ==
    /\ gui.ui = "idle"
    /\ gui.run_button
    /\ gui.clicks < MaxClicks
    /\ gui' = [(IF ~gui.configured THEN gui
                ELSE [gui EXCEPT !.run_button = FALSE, !.workers = @ + 1])
               EXCEPT !.clicks = @ + 1]
    /\ HostUnchanged

\* Lines 439-473: run_search_job returns in a thread run_once started; its
\* finally clause queues the enabling of the button.
WorkerEnds ==
    /\ gui.workers > 0
    /\ gui' = [gui EXCEPT !.workers = @ - 1,
                          !.queue = Append(@, "enable run_button")]
    /\ HostUnchanged

\* The UI thread takes the callback at the head of its queue: it enters
\* run_search_job (line 416), or enables the button (line 473).
UiDispatch ==
    /\ gui.ui = "idle"
    /\ gui.queue # <<>>
    /\ gui' = [gui EXCEPT
                  !.queue = Tail(@),
                  !.ui = IF Head(gui.queue) = "run_search_job" THEN "job" ELSE @,
                  !.run_button = IF Head(gui.queue) = "enable run_button" THEN TRUE ELSE @]
    /\ HostUnchanged

\* Lines 439-473: run_search_job returns on the UI thread.
UiJobEnds ==
    /\ gui.ui = "job"
    /\ gui' = [gui EXCEPT !.ui = "idle",
                          !.queue = Append(@, "enable run_button")]
    /\ HostUnchanged

NextGui ==
    \/ ToggleScheduler
    \/ \E k \in 1..Len(gui.loops) : LoopTest(k)
    \/ \E k \in 1..Len(gui.loops), due \in BOOLEAN : LoopBody(k, due)
    \/ \E k \in 1..Len(gui.loops) : LoopWakes(k)
    \/ RunOnce
    \/ WorkerEnds
    \/ UiDispatch
    \/ UiJobEnds

SpecGui == InitGui /\ [][NextGui]_vars

(***************************************************************************)
(* Claims about the GUI host (specification SpecGui).                      *)
(***************************************************************************)
\* The executions of run_search_job in progress.
JobsInProgress == gui.workers + (IF gui.ui = "job" THEN 1 ELSE 0)

\* C27: at most one execution of run_search_job is in progress at any time.
C27_SingleInstance == JobsInProgress <= 1

LiveLoops == {k \in 1..Len(gui.loops) : Live(gui.loops[k])}

\* C28: at most one scheduler_loop thread is live, and no loop started
\* before a stop schedules a run after the scheduler was started again.
C28_OneSchedulerLoop ==
    /\ Cardinality(LiveLoops) <= 1
    /\ ~gui.stale_fired

(***************************************************************************)
(* Claims about the runs of main (specification Spec).                     *)
(***************************************************************************)

\* C4: sent-flag lifecycle.  In every step, a row that appears in the
\* projects table has is_sent = 0; no row disappears; a row with is_sent = 1
\* keeps it; and a row's is_sent goes from 0 to 1 only in the step of a
\* send_email_notification call that dispatched the digest, returned
\* success, and had that row in its digest.
C4_SentFlagLifecycle ==
    [][/\ Len(projects') >= Len(projects)
       /\ \A i \in 1..Len(projects') :
             IF i > Len(projects) THEN projects'[i].is_sent = 0
             ELSE /\ projects'[i].id = projects[i].id
                  /\ projects[i].is_sent = 1 => projects'[i].is_sent = 1
                  /\ (projects[i].is_sent = 0 /\ projects'[i].is_sent = 1) =>
                         /\ pc = "notify"
                         /\ last_send'.called
                         /\ last_send'.dispatched
                         /\ last_send'.returned
                         /\ projects[i].id \in last_send'.digest]_vars

\* C4 (case reached): in a second run, a successful notification has marked
\* a project sent while a project sent by the first run keeps its flag.
C4_Witness ==
    /\ runs = 2
    /\ last_send.called /\ last_send.returned
    /\ \E i \in 1..Len(at_start) : at_start[i].is_sent = 1 /\ projects[i].is_sent = 1
    /\ \E i \in 1..Len(projects) :
           /\ projects[i].id \in last_send.digest
           /\ projects[i].is_sent = 1

\* C5: when the notification of a run fails (the SMTP exchange raises, or
\* the e-mail credentials are missing), send_email_notification returns
\* failure and the projects table is left exactly as it was, and the run
\* goes on to its report and from there to its end.
C5_FailedNotification ==
    [][/\ (pc = "notify" /\ new_projects_count > 0
             /\ env.notifier \in {"smtp_error", "no_credentials"}) =>
              /\ last_send'.called
              /\ ~last_send'.returned
              /\ projects' = projects
              /\ pc' = "report"
       /\ pc = "report" => (pc' = "done" /\ projects' = projects)]_vars

\* C5 (case reached): a run has ended after its notification failed, and the
\* projects it stored are still unsent.
C5_Witness ==
    /\ pc = "done"
    /\ last_send.called /\ ~last_send.returned
    /\ last_send.notifier \in {"smtp_error", "no_credentials"}
    /\ new_projects_count > 0
    /\ projects = last_send.before
    /\ UnsentIds(projects) # {}

\* C6: a run that evaluates results and saves them, with a working notifier,
\* ends with every project that was unsent at its start marked sent, whether
\* or not the run stored a new project.
C6_UnsentRetriedByNextRun ==
    (pc = "done" /\ env.credentials /\ env.notifier = "ok" /\ last_save.called) =>
        \A i \in 1..Len(at_start) : projects[i].is_sent = 1

(***************************************************************************)
(* evaluate_relevance on its own: called on result lists, from the empty   *)
(* store.                                                                  *)
(***************************************************************************)
ScoreLists ==
    {<<>>} \cup {<<r>> : r \in ScoreInputs}
           \cup {<<a, b>> : a \in {RawResult(I_estate, FirstQuery),
                                   RawResult(I_office7, FirstQuery)},
                            b \in ScoreInputs}
           \cup LanguagePairs

InitScore ==
    /\ InitStore
    /\ pc = "idle"
    /\ env = <<>>
    /\ results = <<>>
    /\ relevant_results = <<>>
    /\ new_projects_count = 0
    /\ last_save = NoSave
    /\ last_send = NoSend
    /\ last_eval = NoEval
    /\ last_search = NoSearch
    /\ text_call = NoTextCall
    /\ outbox = <<>>
    /\ gui = NoGui
    /\ script = NoScript
    /\ report = NoReport
    /\ at_start = <<>>
    /\ runs = 0

ScoreCall(rs, picks) ==
    /\ runs < MaxCalls
    /\ UNCHANGED text_call
    /\ UNCHANGED outbox
    /\ UNCHANGED gui
    /\ UNCHANGED script
    /\ UNCHANGED report
    /\ results' = rs
    /\ Evaluated(rs, evaluate_relevance(rs, picks, companies, locations, today))
    /\ runs' = runs + 1
    /\ UNCHANGED <<projects, analytics, search_log, today, pc, env,
                   new_projects_count, last_save, last_send, last_search, at_start>>

NextScore == \E rs \in ScoreLists : \E picks \in AllPicks(rs) : ScoreCall(rs, picks)

SpecScore == InitScore /\ [][NextScore]_vars

(***************************************************************************)
(* Claims about evaluate_relevance (specification SpecScore).              *)
(***************************************************************************)
EvaluatedIndexes == 1..Len(last_eval.results)

\* C7: evaluate_relevance returns exactly the input results whose score is
\* at least 30, each carrying that score as relevance_score, and every score
\* is a non-negative integer.
C7_AcceptanceThreshold ==
    last_eval.called =>
        LET accepted == {i \in EvaluatedIndexes : last_eval.scores[i] >= 30}
        IN  /\ \A i \in EvaluatedIndexes : last_eval.scores[i] \in Nat
            /\ Len(relevant_results) = Cardinality(accepted)
            /\ \A i \in accepted : \E k \in 1..Len(relevant_results) :
                   /\ relevant_results[k].link = last_eval.results[i].link
                   /\ relevant_results[k].title = last_eval.results[i].title
                   /\ relevant_results[k].snippet = last_eval.results[i].snippet
                   /\ relevant_results[k].relevance_score = last_eval.scores[i]
            /\ \A k \in 1..Len(relevant_results) : \E i \in accepted :
                   /\ relevant_results[k].link = last_eval.results[i].link
                   /\ relevant_results[k].relevance_score = last_eval.scores[i]

\* C7 (case reached): one call evaluated a result scoring exactly 30, which
\* it returned, and a result scoring exactly 29, which it did not.
C7_Witness ==
    /\ last_eval.called
    /\ \E i, j \in EvaluatedIndexes :
           /\ last_eval.scores[i] = 30
           /\ last_eval.scores[j] = 29
           /\ \E k \in 1..Len(relevant_results) :
                  relevant_results[k].link = last_eval.results[i].link
           /\ \A k \in 1..Len(relevant_results) :
                  relevant_results[k].link # last_eval.results[j].link

\* The number of distinct office keywords present in the lower-cased content.
KeywordsMatched(result) ==
    Cardinality({k \in 1..Len(OFFICE_KEYWORDS) :
                    TermIn(OFFICE_KEYWORDS[k], Lower(content_to_check(result)))})

\* C8: the score of every evaluated result is 25 if a company was extracted,
\* plus 15 if a location was extracted (the default "Greece" gives nothing),
\* plus min(5k, 25) for k distinct keywords matched, plus min(t, 20) for t
\* matching tokens left by the stop-word filter, plus 5 if the content is
\* Greek and the query was tagged Greek, plus 10 if a size matched, and
\* nothing else.
C8_ScoreFormula ==
    last_eval.called =>
        \A i \in EvaluatedIndexes :
            LET r == last_eval.results[i]
                x == SignalsOf(r)
            IN  last_eval.scores[i] =
                    (IF x.extracted_companies # {} THEN 25 ELSE 0)
                    + (IF x.found_locations # <<>> THEN 15 ELSE 0)
                    + Min(5 * KeywordsMatched(r), 25)
                    + Min(office_term_count(content_to_check(r)), 20)
                    + (IF detect_language(content_to_check(r)) = "el"
                          /\ r.query_language = "el" THEN 5 ELSE 0)
                    + (IF x.size_matches # <<>> THEN 10 ELSE 0)

\* C8 (case reached): a result with six keywords, a company and a location
\* has been evaluated and scored 25 + 15 + 25 + 6 = 71.
C8_Witness ==
    /\ last_eval.called
    /\ \E i \in EvaluatedIndexes :
           /\ KeywordsMatched(last_eval.results[i]) = 6
           /\ last_eval.scores[i] = 71

\* x has no signal that y lacks.
Dominated(x, y) ==
    /\ x.extracted_companies # {} => y.extracted_companies # {}
    /\ x.found_locations # <<>> => y.found_locations # <<>>
    /\ x.keywords.keyword_count <= y.keywords.keyword_count
    /\ x.office_term_count <= y.office_term_count
    /\ x.language_match => y.language_match
    /\ x.size_matches # <<>> => y.size_matches # <<>>

\* C9: the score is monotone in the signals.  Of two results evaluated by
\* one call, the one with no signal the other lacks never scores higher; and
\* for every evaluated result, taking away its company, its location, one
\* matching token, its language match or its size never raises the score,
\* and adding one never lowers it.
C9_Monotone ==
    last_eval.called =>
        /\ \A i, j \in EvaluatedIndexes :
               Dominated(SignalsOf(last_eval.results[i]), SignalsOf(last_eval.results[j]))
                   => last_eval.scores[i] <= last_eval.scores[j]
        /\ \A i \in EvaluatedIndexes :
               LET x == SignalsOf(last_eval.results[i]) IN
               /\ Score(x) = last_eval.scores[i]
               /\ Score([x EXCEPT !.extracted_companies = {}]) <= Score(x)
               /\ Score([x EXCEPT !.extracted_companies = {<<"KPMG">>}]) >= Score(x)
               /\ Score([x EXCEPT !.found_locations = <<>>]) <= Score(x)
               /\ Score([x EXCEPT !.found_locations = <<<<"Athens">>>>]) >= Score(x)
               /\ Score([x EXCEPT !.language_match = FALSE]) <= Score(x)
               /\ Score([x EXCEPT !.language_match = TRUE]) >= Score(x)
               /\ Score([x EXCEPT !.size_matches = <<>>]) <= Score(x)
               /\ Score([x EXCEPT !.size_matches = <<<<"1200">>>>]) >= Score(x)
               /\ Score([x EXCEPT !.office_term_count = @ + 1]) >= Score(x)
               /\ x.office_term_count > 0 =>
                      Score([x EXCEPT !.office_term_count = @ - 1]) <= Score(x)

\* C9 (case reached): one call evaluated two results that differ in a signal
\* only, and the one with more of it scored strictly higher.
C9_Witness ==
    /\ last_eval.called
    /\ \E i, j \in EvaluatedIndexes :
           /\ Dominated(SignalsOf(last_eval.results[i]), SignalsOf(last_eval.results[j]))
           /\ ~Dominated(SignalsOf(last_eval.results[j]), SignalsOf(last_eval.results[i]))
           /\ last_eval.scores[i] < last_eval.scores[j]

\* How many of the evaluated results had `name` extracted.
RECURSIVE Mentions(_, _, _)
Mentions(name, rs, kind) ==
    IF rs = <<>> THEN 0
    ELSE (IF name \in (IF kind = "company" THEN SignalsOf(Head(rs)).extracted_companies
                       ELSE Range(SignalsOf(Head(rs)).found_locations))
          THEN 1 ELSE 0) + Mentions(name, Tail(rs), kind)

CountIn(tbl, name) ==
    IF \E r \in tbl : r.name = name
    THEN (CHOOSE r \in tbl : r.name = name).mention_count ELSE 0

\* C10: a call upserts a mention record for every company and every
\* location extracted from every result it evaluates, accepted or not: each
\* such name has exactly one record, whose count grew by the number of
\* evaluated results that mention it and whose last-seen date is the day of
\* the call.
C10_MentionsUpserted ==
    last_eval.called =>
        \A i \in EvaluatedIndexes :
            LET x == SignalsOf(last_eval.results[i]) IN
            /\ \A n \in x.extracted_companies :
                   /\ Cardinality({r \in companies : r.name = n}) = 1
                   /\ CountIn(companies, n) = CountIn(last_eval.companies, n)
                                              + Mentions(n, last_eval.results, "company")
                   /\ \A r \in companies : r.name = n => r.last_seen_date = today
            /\ \A n \in Range(x.found_locations) :
                   /\ Cardinality({r \in locations : r.name = n}) = 1
                   /\ CountIn(locations, n) = CountIn(last_eval.locations, n)
                                              + Mentions(n, last_eval.results, "location")
                   /\ \A r \in locations : r.name = n => r.last_seen_date = today

\* C10 (case reached): a second call evaluated a result scoring 25 (a
\* company, no location, no keyword), returned nothing for it, and the
\* count of a company recorded by the first call grew.
C10_Witness ==
    /\ last_eval.called
    /\ runs = 2
    /\ \E i \in EvaluatedIndexes :
           LET x == SignalsOf(last_eval.results[i]) IN
           /\ last_eval.scores[i] = 25
           /\ x.found_locations = <<>>
           /\ x.keywords.keyword_count = 0
           /\ \A k \in 1..Len(relevant_results) :
                  relevant_results[k].link # last_eval.results[i].link
           /\ \E n \in x.extracted_companies :
                  /\ CountIn(last_eval.companies, n) >= 1
                  /\ CountIn(companies, n) = CountIn(last_eval.companies, n) + 1

\* The same title, snippet and page text.
SameContent(r, q) ==
    /\ r.title = q.title /\ r.snippet = q.snippet
    /\ r.has_content = q.has_content /\ r.full_content = q.full_content

\* C25: the language tag of the query does not gate extraction.  Two
\* results of one call with the same title, snippet and page text get the
\* same companies, locations, project type, size and date, whatever their
\* queries, and their scores differ by at most the 5 points of the language
\* match.
C25_QueryLanguageDoesNotGate ==
    last_eval.called =>
        /\ \A i, j \in EvaluatedIndexes :
               SameContent(last_eval.results[i], last_eval.results[j]) =>
                   /\ SignalsOf(last_eval.results[i]).extracted_companies
                          = SignalsOf(last_eval.results[j]).extracted_companies
                   /\ SignalsOf(last_eval.results[i]).found_locations
                          = SignalsOf(last_eval.results[j]).found_locations
                   /\ SignalsOf(last_eval.results[i]).project_type
                          = SignalsOf(last_eval.results[j]).project_type
                   /\ SignalsOf(last_eval.results[i]).size_matches
                          = SignalsOf(last_eval.results[j]).size_matches
                   /\ SignalsOf(last_eval.results[i]).date_matches
                          = SignalsOf(last_eval.results[j]).date_matches
                   /\ last_eval.scores[i] - last_eval.scores[j] \in -5..5
        /\ \A k, l \in 1..Len(relevant_results) :
               (/\ relevant_results[k].title = relevant_results[l].title
                /\ relevant_results[k].snippet = relevant_results[l].snippet
                /\ relevant_results[k].link = relevant_results[l].link) =>
                   /\ relevant_results[k].extracted_companies
                          = relevant_results[l].extracted_companies
                   /\ relevant_results[k].extracted_locations
                          = relevant_results[l].extracted_locations
                   /\ relevant_results[k].project_type = relevant_results[l].project_type
                   /\ relevant_results[k].estimated_size
                          = relevant_results[l].estimated_size
                   /\ relevant_results[k].date_reported
                          = relevant_results[l].date_reported
                   /\ relevant_results[k].relevance_score
                          - relevant_results[l].relevance_score \in -5..5

\* C25 (case reached): one call evaluated a Greek report returned for an
\* English query and for a Greek one; both were kept with the same project
\* type, and the one of the Greek query scored 5 more.
C25_Witness ==
    /\ last_eval.called
    /\ Len(last_eval.results) = 2
    /\ SameContent(last_eval.results[1], last_eval.results[2])
    /\ last_eval.results[1].query_language = "en"
    /\ last_eval.results[2].query_language = "el"
    /\ last_eval.scores[2] = last_eval.scores[1] + 5
    /\ Len(relevant_results) = 2
    /\ relevant_results[1].project_type = "New Office"
    /\ relevant_results[2].project_type = "New Office"
    /\ relevant_results[1].extracted_companies # {}
    /\ relevant_results[1].extracted_companies = relevant_results[2].extracted_companies

\* C25 (case reached, English content): an English report with a size and a
\* date was evaluated for both queries and kept twice with the same values.
C25_WitnessDated ==
    /\ last_eval.called
    /\ Len(last_eval.results) = 2
    /\ SameContent(last_eval.results[1], last_eval.results[2])
    /\ last_eval.results[2].query_language = "el"
    /\ last_eval.scores[2] = last_eval.scores[1]
    /\ Len(relevant_results) = 2
    /\ relevant_results[1].date_reported = <<"2", "0", "2", "4", "-", "0", "3", "-", "1", "5">>
    /\ relevant_results[2].date_reported = relevant_results[1].date_reported
    /\ relevant_results[2].estimated_size = <<"1200", " ", "sq.m">>

(***************************************************************************)
(* Claims about the mention counts across runs (specification Spec).       *)
(***************************************************************************)
\* The results of the last evaluation that no earlier run had scored: their
\* content hash is not that of a project stored when the run started.
FreshResults ==
    SelectSeq(last_eval.results,
              LAMBDA r : \A i \in 1..Len(at_start) :
                             at_start[i].content_hash # r.content_hash)

\* C11: a mention count is created as 1, never decreases, and grows by one
\* per distinct appearance: after an evaluation, each company's and each
\* location's count is its count before the evaluation plus the number of
\* evaluated results mentioning it that no earlier run had scored (a result
\* stored as a project by an earlier run counts for nothing).
C11_CountsDistinctAppearances ==
    last_eval.called =>
        /\ \A r \in companies :
               r.mention_count = CountIn(last_eval.companies, r.name)
                                 + Mentions(r.name, FreshResults, "company")
        /\ \A r \in locations :
               r.mention_count = CountIn(last_eval.locations, r.name)
                                 + Mentions(r.name, FreshResults, "location")

(***************************************************************************)
(* Claims about a run without credentials (specification Spec).            *)
(***************************************************************************)
\* C12: when a search credential is missing the run ends before any request:
\* every step that leaves the program in a run without credentials ends the
\* run at once, with no search request and no page fetch made, no e-mail
\* dispatched, and the projects (sent flags included), the mention tables
\* and the search log as they were.
C12_NoCredentialsNoEffect ==
    [][~env'.credentials =>
          /\ pc' = "done"
          /\ ~last_search'.called
          /\ last_search'.attempted = <<>> /\ last_search'.fetched = <<>>
          /\ ~last_send'.called
          /\ projects' = projects
          /\ companies' = companies /\ locations' = locations
          /\ search_log' = search_log]_vars

\* C12 (case reached): a run without credentials has ended while the store
\* holds an unsent project of an earlier run and a search-log row.
C12_Witness ==
    /\ pc = "done" /\ ~env.credentials /\ runs = 2
    /\ search_log # <<>>
    /\ \E i \in 1..Len(projects) : projects[i].is_sent = 0

(***************************************************************************)
(* search_web on its own (specification SpecSearch): calls with some       *)
(* search history, some MAX_SEARCH_QUERIES and some outcomes of the        *)
(* requests.                                                               *)
(***************************************************************************)
MaxQueries == 2

\* A negative MAX_SEARCH_QUERIES, which int() accepts as well: the slice of
\* line 246 then drops that many queries from the end of the list (here all
\* but two of the 96 generated ones).
NegativeMax == -94

\* The values of MAX_SEARCH_QUERIES: the counts up to the bound, and the
\* negative one.
Maxima == {NegativeMax} \cup 0..MaxQueries

SearchDay == 10

LogRow(day, query, count) ==
    [query |-> query, language |-> QueryLanguage(query), date_searched |-> day,
     results_count |-> count]

\* One query with results and the others without.
H_single ==
    <<LogRow(SearchDay - 1, BaseQueries[1], 0), LogRow(SearchDay - 1, BaseQueries[10], 12),
      LogRow(SearchDay - 1, BaseQueries[11], 0)>>

\* Seven queries with results in the window, one of them in two rows and
\* one on the cutoff day, two with the same total; a row older than the
\* window; and a query that is no longer generated.
H_many ==
    <<LogRow(SearchDay - 9, BaseQueries[2], 50),
      LogRow(SearchDay - 7, BaseQueries[7], 6),
      LogRow(SearchDay - 2, BaseQueries[4], 4),
      LogRow(SearchDay - 1, BaseQueries[4], 3),
      LogRow(SearchDay - 1, BaseQueries[6], 5),
      LogRow(SearchDay - 1, BaseQueries[11], 5),
      LogRow(SearchDay - 1, BaseQueries[1], 2),
      LogRow(SearchDay - 1, BaseQueries[8], 1),
      LogRow(SearchDay - 1, Sentence(<<"tech", "hub">>), 8),
      LogRow(SearchDay - 1, BaseQueries[3], 0)>>

Histories == {<<>>, H_single, H_many}

O_three == Outcome("ok", <<I_again, I_lease, I_greek>>)
O_one == Outcome("ok", <<I_lease>>)
\* Two items whose titles and snippets differ and hold the separator "|".
I_titleBar == Item(<<"KPMG", "|", "office">>, "u11", <<"new">>, "error", <<>>)
I_snippetBar == Item(<<"KPMG">>, "u12", <<"office", "|", "new">>, "error", <<>>)
O_bars == Outcome("ok", <<I_titleBar, I_snippetBar>>)
O_non200 == Outcome("non200", <<>>)
O_error == Outcome("error", <<>>)

\* What the requests of a call do, as a repeating pattern.
OutcomePatterns ==
    {<<O_three>>, <<O_one>>, <<O_bars>>, <<O_non200>>, <<O_error>>,
     <<O_error, O_three>>, <<O_non200, O_one>>, <<O_one, O_three>>, <<O_three, O_error>>}

InitSearch ==
    /\ projects = <<>>
    /\ companies = {}
    /\ locations = {}
    /\ analytics = <<>>
    /\ search_log \in Histories
    /\ today = SearchDay
    /\ pc = "idle"
    /\ env \in {[max_queries |-> n] : n \in Maxima}
    /\ results = <<>>
    /\ relevant_results = <<>>
    /\ new_projects_count = 0
    /\ last_save = NoSave
    /\ last_send = NoSend
    /\ last_eval = NoEval
    /\ last_search = NoSearch
    /\ text_call = NoTextCall
    /\ outbox = <<>>
    /\ gui = NoGui
    /\ script = NoScript
    /\ report = NoReport
    /\ at_start = <<>>
    /\ runs = 0

\* One call of search_web; the next call is a day later.
SearchCall(successful_queries, outcomes) ==
    /\ runs < MaxCalls
    /\ UNCHANGED text_call
    /\ UNCHANGED outbox
    /\ UNCHANGED gui
    /\ UNCHANGED script
    /\ UNCHANGED report
    /\ Searching(env.max_queries, successful_queries, outcomes,
                 search_web(search_log, analytics, env.max_queries,
                            successful_queries, outcomes, today))
    /\ today' = today + 1
    /\ runs' = runs + 1
    /\ UNCHANGED <<projects, companies, locations, pc, env, relevant_results,
                   new_projects_count, last_save, last_send, last_eval, at_start>>

NextSearch ==
    \E successful_queries \in SuccessfulOrders(search_log, today),
       outcomes \in OutcomePatterns :
        SearchCall(successful_queries, outcomes)

SpecSearch == InitSearch /\ [][NextSearch]_vars

(***************************************************************************)
(* Claims about search_web (specification SpecSearch).                     *)
(***************************************************************************)
\* What the request of the i-th issued query of the last call did.
RequestOf(i) == OutcomeAt(last_search.outcomes, i)

IssuedIndexes == 1..Len(last_search.queries)

\* C13: the failure of a query never aborts the run: search_web attempts
\* the request of every query of its list, in order, whatever the earlier
\* requests did; every query answered with 200 is logged; and every item of
\* every answered query is returned (itself, or the item of the same
\* content hash collected before it).
C13_FailureDoesNotAbort ==
    last_search.called =>
        /\ last_search.attempted = last_search.queries
        /\ \A i \in IssuedIndexes :
               RequestOf(i).status = "ok" =>
                   /\ \E k \in 1..Len(search_log) :
                          /\ k > Len(last_search.log)
                          /\ search_log[k].query = last_search.queries[i]
                          /\ search_log[k].results_count = Len(RequestOf(i).items)
                   /\ \A n \in 1..Len(RequestOf(i).items) :
                          \E k \in 1..Len(results) :
                              results[k].content_hash
                                  = ContentHash(RequestOf(i).items[n].title,
                                                RequestOf(i).items[n].snippet)

\* C13 (case reached): a call issued three queries; the first was answered
\* with items, the second failed, the third was answered; results came back.
C13_Witness ==
    /\ last_search.called
    /\ Len(last_search.queries) = 3
    /\ RequestOf(1).status = "ok" /\ RequestOf(1).items # <<>>
    /\ RequestOf(2).status = "error"
    /\ RequestOf(3).status = "ok"
    /\ results # <<>>

\* The item a returned result was made from.
ItemOf(result) ==
    CHOOSE it \in Items \cup {I_titleBar, I_snippetBar} : it.link = result.link

\* C14: a page-fetch failure is never fatal to a result: every returned
\* result has its full content set, to the extracted page text when the page
\* was fetched and to the search snippet when the fetch failed in any way
\* (an exception or a non-200 page response).
C14_FullContentAlwaysSet ==
    last_search.called =>
        \A k \in 1..Len(results) :
            /\ results[k].has_content
            /\ results[k].full_content = IF ItemOf(results[k]).page = "ok"
                                         THEN ItemOf(results[k]).text
                                         ELSE results[k].snippet

\* C15: intra-run deduplication: the returned list has pairwise distinct
\* content hashes, and the pages requested are those of the returned
\* results, one each and in order, so an item skipped as a duplicate had no
\* page fetch.
C15_IntraRunDedup ==
    last_search.called =>
        /\ \A j, k \in 1..Len(results) :
               results[j].content_hash = results[k].content_hash => j = k
        /\ last_search.fetched = [k \in 1..Len(results) |-> results[k].link]

\* C15 (case reached): an answered query held an item whose title and
\* snippet an earlier item had; its page was not requested.
C15_Witness ==
    /\ last_search.called
    /\ \E i \in IssuedIndexes :
           /\ RequestOf(i).status = "ok"
           /\ \E n \in 1..Len(RequestOf(i).items) :
                  /\ \A k \in 1..Len(last_search.fetched) :
                         last_search.fetched[k] # RequestOf(i).items[n].link
                  /\ \E k \in 1..Len(results) :
                         /\ results[k].title = RequestOf(i).items[n].title
                         /\ results[k].snippet = RequestOf(i).items[n].snippet
                         /\ results[k].link # RequestOf(i).items[n].link

NoQueryTwice ==
    \A j, k \in IssuedIndexes : last_search.queries[j] = last_search.queries[k] => j = k

\* C16 (as claimed): for any history and any configured maximum, the list of
\* issued queries holds no string twice and at most the maximum number of
\* entries.
C16_AtMostMaxAnyMaximum ==
    last_search.called =>
        /\ NoQueryTwice
        /\ Len(last_search.queries) <= last_search.max_queries

\* C16 (amended): the same for any configured maximum that is not negative.
C16_AtMostMax ==
    (last_search.called /\ last_search.max_queries >= 0) =>
        /\ NoQueryTwice
        /\ Len(last_search.queries) <= last_search.max_queries

\* C16 (case reached): with two queries allowed and a history of successful
\* queries, the list was cut to two entries.
C16_Witness ==
    /\ last_search.called
    /\ last_search.max_queries = 2
    /\ last_search.successful_queries # <<>>
    /\ Len(last_search.queries) = 2

\* The queries with a row of positive result count in the seven days before
\* the last call, and the total of such rows of a query.
WindowRows(query) ==
    {k \in 1..Len(last_search.log) :
        /\ last_search.log[k].query = query
        /\ last_search.log[k].results_count > 0
        /\ last_search.now - last_search.log[k].date_searched <= 7}

RECURSIVE WindowTotalFrom(_, _)
WindowTotalFrom(query, k) ==
    IF k > Len(last_search.log) THEN 0
    ELSE (IF k \in WindowRows(query) THEN last_search.log[k].results_count ELSE 0)
         + WindowTotalFrom(query, k + 1)

WindowTotal(query) == WindowTotalFrom(query, 1)

WindowQueries ==
    {last_search.log[k].query : k \in {k \in 1..Len(last_search.log) :
                                          WindowRows(last_search.log[k].query) # {}}}

\* C17: history re-ranking.  The issued list is a prefix of: the queries
\* with positive result counts in the trailing seven days, by total result
\* count descending, the top five of them; then the generated queries in
\* construction order with those removed.  A query that alone has prior
\* results is issued first.
C17_HistoryFirst ==
    last_search.called =>
        LET front == last_search.successful_queries
            rest == SelectSeq(GeneratedQueries,
                              LAMBDA q : \A i \in 1..Len(front) : front[i] # q)
        IN  /\ \A i \in 1..Len(front) : front[i] \in WindowQueries
            /\ \A i, j \in 1..Len(front) : front[i] = front[j] => i = j
            /\ Len(front) = Min(5, Cardinality(WindowQueries))
            /\ \A i, j \in 1..Len(front) :
                   i < j => WindowTotal(front[i]) >= WindowTotal(front[j])
            /\ \A i \in 1..Len(front) :
                   \A q \in WindowQueries :
                       (\A j \in 1..Len(front) : front[j] # q)
                           => WindowTotal(front[i]) >= WindowTotal(q)
            /\ \A k \in IssuedIndexes : last_search.queries[k] = (front \o rest)[k]
            /\ \A q \in WindowQueries :
                   (WindowQueries = {q} /\ last_search.max_queries >= 1)
                       => last_search.queries[1] = q

\* C17 (case reached): the history held "γραφεία έργα" with 12 results and
\* other queries with none; it was issued first, before "office projects".
C17_Witness ==
    /\ last_search.called
    /\ last_search.log = H_single
    /\ WindowTotal(BaseQueries[10]) = 12
    /\ last_search.queries = <<BaseQueries[10], BaseQueries[1]>>

\* C17 (case reached, more than five): seven queries had results in the
\* window and five of them lead the list, a query of two rows by its sum.
C17_WitnessTopFive ==
    /\ last_search.called
    /\ Cardinality(WindowQueries) = 7
    /\ Len(last_search.successful_queries) = 5
    /\ last_search.queries = SubSeq(last_search.successful_queries, 1, 2)
    /\ last_search.queries[2] = BaseQueries[4]

(***************************************************************************)
(* The text functions on their own (specification SpecText): a text and a  *)
(* language are given, and detect_language and extract_project_type are    *)
(* applied to them.                                                        *)
(***************************************************************************)
\* The phrases the texts are made of: for both languages, phrases holding a
\* keyword of each category (some capitalised, some holding the keyword
\* inside a longer word), halves of a two-word keyword, and neutral words.
Phrases ==
    {<<"New", " ", "office">>, <<"new">>, <<"office">>, <<"relocating">>,
     <<"expanding">>, <<"renovation">>, <<"leased">>, <<"acquired">>, <<"today">>,
     <<"νέα", " ", "γραφεία">>, <<"Μετεγκατάσταση">>, <<"επέκταση">>, <<"ανακαίνιση">>,
     <<"μίσθωση">>, <<"εξαγορά">>, <<"για">>, <<"της">>}

RECURSIVE Repeated(_, _)
Repeated(text, n) == IF n = 0 THEN <<>> ELSE text \o Repeated(text, n - 1)

\* Texts longer than the sample of 100 characters: English first and Greek
\* after the sample, and the reverse.
T_greekLate == Repeated(<<"development", " ">>, 9) \o Repeated(<<"μετεγκατάσταση", " ">>, 4)
T_greekEarly == Repeated(<<"μετεγκατάσταση", " ">>, 3) \o Repeated(<<"development", " ">>, 9)

\* "PwC announced a new office in Athens, Greece, covering 1200 sq.m"
S_pwc ==
    <<"PwC", " ", "announced", " ", "a", " ", "new", " ", "office", " ", "in", " ",
      "Athens", ",", " ", "Greece", ",", " ", "covering", " ", "1200", " ", "sq.m">>

\* Texts holding a date: day, month and year numbers with a separator, on
\* their own, after a word, and two of them.
DateTexts ==
    {<<d, sep, m, sep, y>> : d \in {"0", "5", "15", "31", "45"},
                             m \in {"00", "02", "3", "13"},
                             y \in {"24", "123", "2023", "2024"},
                             sep \in {"/", "."}}
        \cup {<<"today", " ", "15", "-", "3", "/", "2024">>,
              <<"45", "/", "13", "/", "2024", " ", "15", "/", "3", "/", "2024">>,
              <<"15", "/", "3", "/", "1200", "sq.m">>}

Texts ==
    {<<>>, T_greekLate, T_greekEarly, S_pwc, S_en, S_el, <<"PwC">>}
        \cup Phrases \cup {p \o <<" ">> \o q : p, q \in Phrases} \cup DateTexts

Languages == {"en", "el", "unknown"}

\* The arguments: a str, or a value that is not a str (None).
TextArguments ==
    {[is_str |-> TRUE, text |-> t] : t \in Texts} \cup {[is_str |-> FALSE, text |-> <<>>]}

InitText ==
    /\ InitStore
    /\ pc = "idle"
    /\ env = <<>>
    /\ results = <<>>
    /\ relevant_results = <<>>
    /\ new_projects_count = 0
    /\ last_save = NoSave
    /\ last_send = NoSend
    /\ last_eval = NoEval
    /\ last_search = NoSearch
    /\ report = NoReport
    /\ script = NoScript
    /\ gui = NoGui
    /\ outbox = <<>>
    /\ \E arg \in TextArguments, language \in Languages :
           text_call = [is_str |-> arg.is_str, text |-> arg.text, language |-> language,
                        project_type |-> "none", detected |-> "none",
                        extracted |-> FALSE, companies |-> {},
                        dated |-> FALSE, date_reported |-> NoDate]
    /\ at_start = <<>>
    /\ runs = 0

\* detect_language(text)
DetectLanguage ==
    /\ text_call.detected = "none"
    /\ UNCHANGED outbox
    /\ UNCHANGED gui
    /\ UNCHANGED script
    /\ UNCHANGED report
    /\ text_call' = [text_call EXCEPT
                        !.detected = DetectLanguageOf(text_call.is_str, text_call.text)]
    /\ UNCHANGED <<projects, companies, locations, analytics, search_log, today, pc, env,
                   results, relevant_results, new_projects_count, last_save, last_send,
                   last_eval, last_search, at_start, runs>>

\* extract_project_type(content, language), for a str
ExtractProjectType ==
    /\ text_call.project_type = "none"
    /\ UNCHANGED outbox
    /\ UNCHANGED gui
    /\ UNCHANGED script
    /\ UNCHANGED report
    /\ text_call.is_str
    /\ text_call' = [text_call EXCEPT
                        !.project_type = extract_project_type(text_call.text,
                                                              text_call.language)]
    /\ UNCHANGED <<projects, companies, locations, analytics, search_log, today, pc, env,
                   results, relevant_results, new_projects_count, last_save, last_send,
                   last_eval, last_search, at_start, runs>>

\* extract_company_names(text, language), for a str and a language the
\* callers pass
ExtractCompanyNames ==
    /\ ~text_call.extracted
    /\ UNCHANGED outbox
    /\ UNCHANGED gui
    /\ UNCHANGED script
    /\ UNCHANGED report
    /\ text_call.is_str
    /\ text_call.language \in {"en", "el"}
    /\ text_call' = [text_call EXCEPT
                        !.extracted = TRUE,
                        !.companies = extract_company_names(text_call.text,
                                                            text_call.language)]
    /\ UNCHANGED <<projects, companies, locations, analytics, search_log, today, pc, env,
                   results, relevant_results, new_projects_count, last_save, last_send,
                   last_eval, last_search, at_start, runs>>

\* Lines 741-752 of evaluate_relevance, for a str: the date set from the
\* first date match of the text.
ReportDate ==
    /\ ~text_call.dated
    /\ UNCHANGED outbox
    /\ UNCHANGED gui
    /\ UNCHANGED script
    /\ UNCHANGED report
    /\ text_call.is_str
    /\ text_call' = [text_call EXCEPT
                        !.dated = TRUE,
                        !.date_reported = DateReported(date_matches(text_call.text, 1))]
    /\ UNCHANGED <<projects, companies, locations, analytics, search_log, today, pc, env,
                   results, relevant_results, new_projects_count, last_save, last_send,
                   last_eval, last_search, at_start, runs>>

NextText == DetectLanguage \/ ExtractProjectType \/ ExtractCompanyNames \/ ReportDate

SpecText == InitText /\ [][NextText]_vars

(***************************************************************************)
(* Claims about the text functions (specification SpecText).               *)
(***************************************************************************)
\* The categories in the order of the claim.
Categories ==
    <<"New Office", "Relocation", "Expansion", "Renovation", "Leasing", "Acquisition">>

\* The k-th category has a keyword for the call's language that occurs in
\* the lower-cased text.
CategoryOccurs(k) ==
    /\ k <= Len(ProjectTypeRules(text_call.language))
    /\ \E n \in 1..Len(ProjectTypeRules(text_call.language)[k][2]) :
           TermIn(ProjectTypeRules(text_call.language)[k][2][n], Lower(text_call.text))

\* C18: extract_project_type returns exactly one of the seven values: the
\* first category, in the order New Office, Relocation, Expansion,
\* Renovation, Leasing, Acquisition, one of whose keywords for the language
\* occurs in the lower-cased text, and "Office Project" when none occurs.
C18_FirstCategory ==
    text_call.project_type # "none" =>
        /\ text_call.project_type \in Range(Categories) \cup {"Office Project"}
        /\ \A k \in 1..Len(Categories) :
               (CategoryOccurs(k) /\ \A j \in 1..(k - 1) : ~CategoryOccurs(j))
                   => /\ text_call.project_type = Categories[k]
                      /\ ProjectTypeRules(text_call.language)[k][1] = Categories[k]
        /\ (\A k \in 1..Len(Categories) : ~CategoryOccurs(k))
               => text_call.project_type = "Office Project"

\* C18 (case reached): a text with a capitalised keyword of Relocation and,
\* before it, a word holding a keyword of Acquisition was classified in
\* Greek as Relocation.
C18_Witness ==
    /\ text_call.text = <<"εξαγορά", " ", "Μετεγκατάσταση">>
    /\ text_call.language = "el"
    /\ CategoryOccurs(2) /\ CategoryOccurs(6)
    /\ text_call.project_type = "Relocation"

\* The characters of a text, each marked TRUE when it is a Greek letter; the
\* final sigma counts when `sigma` is TRUE.
RECURSIVE GreekMarks(_, _)
GreekMarks(text, sigma) ==
    IF text = <<>> THEN <<>>
    ELSE [j \in 1..CharLen(Head(text)) |->
             \/ Head(text) \in GreekAtoms
             \/ Head(text) \in FinalSigmaAtoms /\ (sigma \/ j < CharLen(Head(text)))]
         \o GreekMarks(Tail(text), sigma)

MoreThan30Percent(sample) ==
    10 * Cardinality({j \in 1..Len(sample) : sample[j]}) > 3 * Len(sample)

\* The first 100 characters hold more than 30% letters of the Greek
\* alphabet.
MostlyGreekAlphabet == MoreThan30Percent(Take(GreekMarks(Lower(text_call.text), TRUE), 100))

\* The first 100 characters hold more than 30% letters of greek_chars, the
\* function's table of Greek letters, which has no final sigma.
MostlyGreekSample == MoreThan30Percent(Take(GreekMarks(Lower(text_call.text), FALSE), 100))

C19_WitnessThreshold ==
    /\ text_call.text = <<"για", " ", "office">>
    /\ ~MostlyGreekSample
    /\ text_call.detected = "en"

\* C20: the content hash is an injective function of the pair (title,
\* snippet), also when the fields hold the separator: an item of an answered
\* query that has the content hash of a returned result has that result's
\* title and snippet.
C20_HashInjective ==
    last_search.called =>
        \A i \in IssuedIndexes :
            RequestOf(i).status = "ok" =>
                \A n \in 1..Len(RequestOf(i).items) :
                    \A k \in 1..Len(results) :
                        results[k].content_hash
                            = ContentHash(RequestOf(i).items[n].title,
                                          RequestOf(i).items[n].snippet)
                        => /\ results[k].title = RequestOf(i).items[n].title
                           /\ results[k].snippet = RequestOf(i).items[n].snippet

\* C21: every watch-list company that occurs verbatim in the text is a
\* member of the set extract_company_names returns, for either language.
C21_WatchListIncluded ==
    text_call.extracted =>
        \A k \in 1..Len(EXAMPLE_COMPANIES) :
            IsSubstring(EXAMPLE_COMPANIES[k], text_call.text)
                => EXAMPLE_COMPANIES[k] \in text_call.companies

\* C23: between every two consecutive search requests of a run there is a
\* pause, whatever the first of the two did.
C23_PauseBetweenRequests ==
    last_search.called =>
        \A i \in 1..(Len(last_search.events) - 1) :
            last_search.events[i] = "request"
                => last_search.events[i + 1] = "pause"

\* The number a sequence of digits writes.
RECURSIVE NumberOf(_)
NumberOf(digits) ==
    IF digits = <<>> THEN 0
    ELSE 10 * NumberOf(SubSeq(digits, 1, Len(digits) - 1))
         + (CHOOSE n \in 0..9 : ToString(n) = digits[Len(digits)])

IsLeapYear(y) == (y % 4 = 0 /\ y % 100 # 0) \/ y % 400 = 0

DaysInMonth(y, m) ==
    IF m = 2 THEN (IF IsLeapYear(y) THEN 29 ELSE 28)
    ELSE IF m \in {4, 6, 9, 11} THEN 30 ELSE 31

AllDigits(s) == \A i \in 1..Len(s) : s[i] \in {ToString(n) : n \in 0..9}

\* YYYY-MM-DD naming a day of the calendar.
IsIsoDate(s) ==
    /\ Len(s) = 10
    /\ s[5] = "-" /\ s[8] = "-"
    /\ AllDigits(SubSeq(s, 1, 4)) /\ AllDigits(SubSeq(s, 6, 7)) /\ AllDigits(SubSeq(s, 9, 10))
    /\ NumberOf(SubSeq(s, 6, 7)) \in 1..12
    /\ NumberOf(SubSeq(s, 9, 10))
           \in 1..DaysInMonth(NumberOf(SubSeq(s, 1, 4)), NumberOf(SubSeq(s, 6, 7)))

\* C24: a reported date set from a day/month/year match is a valid ISO 8601
\* calendar date, and a match that is not a valid date leaves it unset.
C24_ReportedDateIsIso ==
    (text_call.dated /\ text_call.date_reported # NoDate)
        => IsIsoDate(text_call.date_reported)

(***************************************************************************)
(* Claims about the analytics records (specification Spec).                *)
(***************************************************************************)
\* C26: metrics are per run.  The step that records the metrics of a saved
\* list writes the record of the current run only (the last one, inserted
\* by the run's search), and no step changes a record written by an earlier
\* run.
C26_EarlierRecordsKept ==
    [][\A i \in 1..Len(analytics) :
          \/ pc = "save" /\ i = Len(analytics)
          \/ i <= Len(analytics') /\ analytics'[i] = analytics[i]]_vars

(***************************************************************************)
(* The runs of main with the deliveries counted (specification             *)
(* SpecDigests): the steps of Spec, and outbox holds for each project the  *)
(* number of digests holding it that the mail server accepted.             *)
(***************************************************************************)
NotifyRecorded == Notifying(TRUE)

NextDigests ==
    \/ \E credentials \in BOOLEAN, notifier \in Notifiers, day \in {today, today + 1} :
           MainStart(credentials, notifier, day)
    \/ \E successful_queries \in SuccessfulOrders(search_log, today),
          status \in {"ok", "non200", "error"}, items \in Responses :
           SearchWeb(successful_queries, <<Outcome(status, items)>>)
    \/ \E picks \in AllPicks(results) : EvaluateRelevance(picks)
    \/ SaveToDatabase
    \/ NotifyRecorded
    \/ Report

SpecDigests == Init /\ [][NextDigests]_vars
\* C30: no project is notified twice.  Across the runs, whatever step of
\* send_email_notification failed, no project is contained in two digests
\* that were dispatched.
C30_NotifiedOnce == \A id \in DOMAIN outbox : outbox[id] <= 1

(***************************************************************************)
(* Claims about the end of a run (specification Spec).                     *)
(***************************************************************************)
Says(what) == \E i \in 1..Len(report.lines) : report.lines[i].says = what

\* C22: every run that passed the credential check ends with the summary,
\* whose counts are those of the run, and the summary says a notification
\* was sent only if the notification of the run succeeded.
C22_SummaryMatchesRun ==
    (pc = "done" /\ env.credentials) =>
        /\ report.printed
        /\ \A i \in 1..Len(report.lines) :
               /\ report.lines[i].says = "found" => report.lines[i].count = Len(results)
               /\ report.lines[i].says = "relevant"
                      => report.lines[i].count = Len(relevant_results)
               /\ report.lines[i].says = "added"
                      => report.lines[i].count = new_projects_count
        /\ Says("sent notification") => (last_send.called /\ last_send.returned)

====
